---- MODULE Spec2Model ----
(***************************************************************************)
(* A model of the trade indexer (INTEARnear/trade-indexer).                *)
(*                                                                         *)
(* The indexer is driven block by block: process_block decodes the raw     *)
(* state mutations of the block, on_receipt offers every receipt to the    *)
(* protocol adapters in a fixed order, process_block_end flushes the       *)
(* handler.  Strings that the code parses or formats (log lines, pool ids, *)
(* token ids) are sequences of one-character strings, so that parsing is   *)
(* modelled by what it does.  Unsigned and signed 128-bit integers are     *)
(* scaled down to BITS bits, with the same wrap-around rules.              *)
(***************************************************************************)
EXTENDS Integers, Sequences, FiniteSets, TLC

(***************************************************************************)
(* Bounds of the model.                                                    *)
(***************************************************************************)
\* width of the scaled "128-bit" integers: u128 is 0 .. 2^BITS - 1,
\* i128 is -2^(BITS-1) .. 2^(BITS-1) - 1
BITS == 4
\* number of blocks the driver feeds
MaxBlocks == 2
\* number of receipts offered per block
MaxReceipts == 2

RECURSIVE Pow2(_)
Pow2(n) == IF n = 0 THEN 1 ELSE 2 * Pow2(n - 1)

U128_MAX == Pow2(BITS) - 1
I128_MAX == Pow2(BITS - 1) - 1
I128_MIN == 0 - Pow2(BITS - 1)

(***************************************************************************)
(* Option<T>: None is the empty sequence, Some(v) the one-element one.     *)
(***************************************************************************)
None == << >>
Some(v) == << v >>
IsSome(o) == Len(o) = 1
Unwrap(o) == o[1]

(***************************************************************************)
(* Integer conversions and arithmetic of the code.                         *)
(***************************************************************************)
\* `x as i128` for a u128 x: reinterprets the bits, never fails
AsI128(x) == IF x > I128_MAX THEN x - Pow2(BITS) ELSE x

\* i128::try_from(x) for a u128 x
TryFromU128(x) == IF x > I128_MAX THEN None ELSE Some(x)

\* the value an i128 operation leaves when it wraps
WrapI128(x) == ((x - I128_MIN) % Pow2(BITS)) + I128_MIN

\* whether the mathematical result of an i128 operation is out of range
OverflowsI128(x) == x < I128_MIN \/ x > I128_MAX

(***************************************************************************)
(* String primitives (str::strip_prefix, strip_suffix, split_once, split,  *)
(* parse, format!).                                                        *)
(***************************************************************************)
Digits == <<"0", "1", "2", "3", "4", "5", "6", "7", "8", "9">>

IsDigit(c) == \E i \in 1..10 : Digits[i] = c

DigitVal(c) == (CHOOSE i \in 1..10 : Digits[i] = c) - 1

StartsWith(s, p) == Len(s) >= Len(p) /\ SubSeq(s, 1, Len(p)) = p

EndsWith(s, p) == Len(s) >= Len(p) /\ SubSeq(s, Len(s) - Len(p) + 1, Len(s)) = p

StripPrefix(s, p) == IF StartsWith(s, p) THEN Some(SubSeq(s, Len(p) + 1, Len(s))) ELSE None

StripSuffix(s, p) == IF EndsWith(s, p) THEN Some(SubSeq(s, 1, Len(s) - Len(p))) ELSE None

\* positions at which the pattern d occurs in s
Occurrences(s, d) == { i \in 1..(Len(s) - Len(d) + 1) : SubSeq(s, i, i + Len(d) - 1) = d }

Min(S) == CHOOSE x \in S : \A y \in S : x <= y

\* str::split_once: split at the first occurrence of d
SplitOnce(s, d) ==
    IF Occurrences(s, d) = {} THEN None
    ELSE LET i == Min(Occurrences(s, d))
         IN  Some(<< SubSeq(s, 1, i - 1), SubSeq(s, i + Len(d), Len(s)) >>)

\* str::split(d): all the pieces, at least one
RECURSIVE Split(_, _)
Split(s, d) ==
    IF Occurrences(s, d) = {} THEN << s >>
    ELSE LET i == Min(Occurrences(s, d))
         IN  << SubSeq(s, 1, i - 1) >> \o Split(SubSeq(s, i + Len(d), Len(s)), d)

\* value of a digit string, saturated just above the u128 range
RECURSIVE DecValue(_, _)
DecValue(s, acc) ==
    IF s = << >> THEN acc
    ELSE LET v == acc * 10 + DigitVal(Head(s))
         IN  DecValue(Tail(s), IF v > U128_MAX THEN U128_MAX + 1 ELSE v)

\* str::parse::<u128>: an optional '+', then one or more digits, in range
ParseBalance(s) ==
    LET body == IF Len(s) > 0 /\ Head(s) = "+" THEN Tail(s) ELSE s
    IN  IF body = << >> \/ (\E i \in 1..Len(body) : ~IsDigit(body[i])) THEN None
        ELSE IF DecValue(body, 0) > U128_MAX THEN None
        ELSE Some(DecValue(body, 0))

\* format!("{}", n) for an unsigned integer
RECURSIVE Dec(_)
Dec(n) == IF n < 10 THEN << Digits[n + 1] >> ELSE Dec(n \div 10) \o << Digits[(n % 10) + 1] >>

Lower == <<"a", "b", "c", "d", "e", "f", "g", "h", "i", "j", "k", "l", "m",
           "n", "o", "p", "q", "r", "s", "t", "u", "v", "w", "x", "y", "z">>

IsAccountChar(c) == IsDigit(c) \/ \E i \in 1..26 : Lower[i] = c

IsSeparator(c) == c \in {"-", "_", "."}

\* str::parse::<AccountId>: 2..64 characters, lowercase alphanumerics joined by
\* single separators
ParseAccountId(s) ==
    IF /\ Len(s) >= 2
       /\ Len(s) <= 64
       /\ \A i \in 1..Len(s) : IsAccountChar(s[i]) \/ IsSeparator(s[i])
       /\ ~IsSeparator(s[1])
       /\ ~IsSeparator(s[Len(s)])
       /\ \A i \in 1..(Len(s) - 1) : ~(IsSeparator(s[i]) /\ IsSeparator(s[i + 1]))
    THEN Some(s)
    ELSE None

(***************************************************************************)
(* Text the adapters match against or produce.                             *)
(***************************************************************************)
SWAPPED == <<"S", "w", "a", "p", "p", "e", "d", " ">>

SWAP_BY_OUTPUT == <<"S", "w", "a", "p", "_", "b", "y", "_", "o", "u", "t", "p", "u", "t", " ">>

FOR == <<" ", "f", "o", "r", " ">>

LIQUIDITY_ADDED == <<"L", "i", "q", "u", "i", "d", "i", "t", "y", " ", "a", "d", "d", "e", "d", " ", "[", "\"">>

SHARES == <<" ", "s", "h", "a", "r", "e", "s">>

MINTED == <<"\"", "]", ",", " ", "m", "i", "n", "t", "e", "d", " ">>

AMOUNT_SEP == <<"\"", ",", " ", "\"">>

LIQUIDITY_REMOVED == <<" ", "s", "h", "a", "r", "e", "s", " ", "o", "f", " ", "l", "i", "q", "u", "i", "d", "i", "t", "y", " ", "r", "e", "m", "o", "v", "e", "d", ":", " ", "r", "e", "c", "e", "i", "v", "e", " ", "b", "a", "c", "k", " ", "[", "\"">>

LIST_END == <<"\"", "]">>

EVENT_JSON == <<"E", "V", "E", "N", "T", "_", "J", "S", "O", "N", ":">>

WRAP_NEAR == <<"w", "r", "a", "p", ".", "n", "e", "a", "r">>

NEAR == <<"n", "e", "a", "r">>

REF_CONTRACT_ID == "v2.ref-finance.near"

TESTNET_REF_CONTRACT_ID == "ref-finance-101.testnet"

AIDOLS_CONTRACT_ID == "aidols.near"

GRAFUN_CONTRACT_ID == "gra-fun.near"

REFDCL_CONTRACT_ID == "dclv2.ref-labs.near"

VEAX_CONTRACT_ID == "veax.near"

INTEAR_CONTRACT_ID == "dex.intear.near"

PLACH_DEX_ID == <<"s", "l", "i", "m", "e", "d", "r", "a", "g", "o", "n", ".", "n", "e", "a", "r", "/", "x", "y", "k">>

HOT_RELAYER == "ref.hot.tg"

(***************************************************************************)
(* Pool ids.                                                               *)
(***************************************************************************)
create_ref_pool_id(pool_id) == <<"R", "E", "F", "-">> \o Dec(pool_id)

\* variant: Ref DCL pools are named with the prefix of the Ref pools
create_refdcl_pool_id_as_ref(pool_id) == <<"R", "E", "F", "-">> \o pool_id

create_refdcl_pool_id(pool_id) == <<"R", "E", "F", "D", "C", "L", "-">> \o pool_id

create_veax_pool_id(tokens) == <<"V", "E", "A", "X", "-">> \o tokens[1] \o <<"-">> \o tokens[2]

create_aidols_pool_id(token_id) == <<"A", "I", "D", "O", "L", "S", "-">> \o token_id

create_grafun_pool_id(token_id) == <<"G", "R", "A", "F", "U", "N", "-">> \o token_id

create_plach_pool_id(pool_id) == <<"I", "N", "T", "E", "A", "R", "P", "L", "A", "C", "H", "-">> \o Dec(pool_id)

(***************************************************************************)
(* HashMap<AccountId, i128>: a function whose domain is the set of keys.   *)
(***************************************************************************)
EmptyMap == [k \in {} |-> 0]

\* HashMap::insert: a later insert of the same key replaces the value
MapInsert(m, k, v) == [x \in (DOMAIN m) \cup {k} |-> IF x = k THEN v ELSE m[x]]

\* HashMap::from_iter over a list of (key, value) pairs
RECURSIVE MapFromIter(_)
MapFromIter(pairs) ==
    IF pairs = << >> THEN EmptyMap
    ELSE LET n == Len(pairs)
         IN  MapInsert(MapFromIter(SubSeq(pairs, 1, n - 1)), pairs[n][1], pairs[n][2])

\* *map.entry(k).or_insert(0)
MapGetOrZero(m, k) == IF k \in DOMAIN m THEN m[k] ELSE 0

\* variant: nothing is removed from the map
RetainAll(m) == m

\* HashMap::retain(|_, v| *v != 0)
RetainNonZero(m) == [k \in { x \in DOMAIN m : m[x] # 0 } |-> m[k]]

(***************************************************************************)
(* The events handed to the handler (TradeEventHandler).                   *)
(***************************************************************************)
TradeContext(trader, block, transaction, receipt) ==
    [ trader |-> trader,
      block_height |-> block.height,
      block_timestamp_nanosec |-> block.timestamp_nanosec,
      transaction_id |-> transaction.hash,
      receipt_id |-> receipt.receipt_id ]

RawPoolSwap(pool, token_in, token_out, amount_in, amount_out) ==
    [ pool |-> pool, token_in |-> token_in, token_out |-> token_out,
      amount_in |-> amount_in, amount_out |-> amount_out ]

OnRawPoolSwap(context, swap) ==
    [ op |-> "on_raw_pool_swap", block_height |-> context.block_height,
      context |-> context, swap |-> swap ]

OnBalanceChangeSwap(context, balance_changes, pool_swaps) ==
    [ op |-> "on_balance_change_swap", block_height |-> context.block_height,
      context |-> context, balance_changes |-> balance_changes, pool_swaps |-> pool_swaps ]

OnLiquidityPool(context, pool_id, tokens) ==
    [ op |-> "on_liquidity_pool", block_height |-> context.block_height,
      context |-> context, pool_id |-> pool_id, tokens |-> tokens ]

OnPoolChange(pool_id, receipt_id, block, pool) ==
    [ op |-> "on_pool_change", block_height |-> block.height,
      pool_id |-> pool_id, receipt_id |-> receipt_id,
      block_timestamp_nanosec |-> block.timestamp_nanosec, pool |-> pool ]

FlushEvents(block_height) == [ op |-> "flush_events", block_height |-> block_height ]

(***************************************************************************)
(* Receipts, transactions, call arguments.                                 *)
(*                                                                         *)
(* A receipt is a record [receipt_id, receiver_id, predecessor_id, status, *)
(* kind, actions, logs, receipt_ids]; receipt_ids are the ids of the       *)
(* receipts it spawned.  A transaction is [hash, receipts], receipts being *)
(* a list of Option<receipt>.  A log line is [text, event]: text is the    *)
(* line, event is what the line deserializes to as an EVENT_JSON log       *)
(* (None when it is not one).  Call arguments are the JSON document they   *)
(* hold, as a record tagged with its shape.                                *)
(***************************************************************************)
\* TransactionReceipt::is_successful(if_unknown)
is_successful(receipt, if_unknown) ==
    CASE receipt.status = "Unknown" -> if_unknown
      [] receipt.status = "Failure" -> FALSE
      [] OTHER -> TRUE

\* serde_json::from_slice::<MethodSwap>, ::<MethodExecuteActions>: {"actions": [Action]}
ParseMethodSwap(args) == IF args.shape = "actions" THEN Some(args.pools) ELSE None

\* serde_json::from_slice::<FtTransferCallArgs>: {"msg": String}
ParseFtTransferCallArgs(args) == IF args.shape = "msg" THEN Some(args.msg) ELSE None

\* serde_json::from_str::<FtTransferCallArgsExecute>(msg): {"actions": [Action]}
ParseFtTransferCallArgsExecute(msg) == IF msg.shape = "actions" THEN Some(msg.pools) ELSE None

\* serde_json::from_str::<FtTransferCallArgsHotZap>(msg): {"hot_zap_actions": [Action]}
ParseFtTransferCallArgsHotZap(msg) == IF msg.shape = "hot_zap_actions" THEN Some(msg.pools) ELSE None

\* serde_json::from_slice::<FtTransferCallArgsAddLiquidity>: {"pool_id", "amounts"}
ParseAddLiquidity(args) == IF args.shape = "add_liquidity" THEN Some(args.pool_id) ELSE None

\* serde_json::from_slice::<RemoveLiquidity>: {"pool_id", "shares", "min_amounts"}
ParseRemoveLiquidity(args) == IF args.shape = "remove_liquidity" THEN Some(args.pool_id) ELSE None

\* the first receipt of the transaction that spawned the receipt with this id
RECURSIVE FindSpawner(_, _)
FindSpawner(receipts, receipt_id) ==
    IF receipts = << >> THEN None
    ELSE IF IsSome(Head(receipts)) /\ receipt_id \in Unwrap(Head(receipts)).receipt_ids
         THEN Head(receipts)
         ELSE FindSpawner(Tail(receipts), receipt_id)

find_parent_receipt(transaction, receipt) == FindSpawner(transaction.receipts, receipt.receipt_id)

(***************************************************************************)
(* Ref: the liquidity log grammars.  The result of a line is               *)
(* [kind |-> "ok", tokens |-> map], [kind |-> "return"] where the code     *)
(* returns from detect, or [kind |-> "panic"] where a negation overflows   *)
(* in a build with overflow checks.                                        *)
(***************************************************************************)
\* one "<amount> <token>" item of a liquidity line, negated for a removal; amount
\* and token are the results of the two parses
LiquidityItemParsed(amount, token, negate, checks) ==
    IF ~IsSome(amount) THEN [kind |-> "return"]
    ELSE IF ~IsSome(token) THEN [kind |-> "return"]
    ELSE IF ~negate
         THEN [kind |-> "ok", token |-> Unwrap(token), amount |-> AsI128(Unwrap(amount))]
    ELSE IF OverflowsI128(0 - AsI128(Unwrap(amount))) /\ checks
         THEN [kind |-> "panic"]
    ELSE [kind |-> "ok", token |-> Unwrap(token),
          amount |-> WrapI128(0 - AsI128(Unwrap(amount)))]

\* parts is the result of split_once(' ')
LiquidityItemParts(parts, negate, checks) ==
    IF ~IsSome(parts) THEN [kind |-> "return"]
    ELSE LiquidityItemParsed(ParseBalance(Unwrap(parts)[1]), ParseAccountId(Unwrap(parts)[2]),
                             negate, checks)

LiquidityItem(item, negate, checks) == LiquidityItemParts(SplitOnce(item, <<" ">>), negate, checks)

\* the loop over the items of a line, inserting into the map; r is the result of
\* the first item
RECURSIVE LiquidityItems(_, _, _, _)
LiquidityItemsInsert(r, items, tokens, negate, checks) ==
    IF r.kind # "ok" THEN [kind |-> r.kind]
    ELSE LiquidityItems(Tail(items), MapInsert(tokens, r.token, r.amount), negate, checks)

LiquidityItems(items, tokens, negate, checks) ==
    IF items = << >> THEN [kind |-> "ok", tokens |-> tokens]
    ELSE LiquidityItemsInsert(LiquidityItem(Head(items), negate, checks), items, tokens, negate, checks)

\* "Liquidity added ["<amount> <token>", ...], minted <shares> shares": the line
\* after split_once("\"], minted ")
LiquidityAddedMinted(log, checks) ==
    IF ~IsSome(log) THEN [kind |-> "return"]
    ELSE IF ~IsSome(ParseBalance(Unwrap(log)[2])) THEN [kind |-> "return"]
    ELSE LiquidityItems(Split(Unwrap(log)[1], AMOUNT_SEP), EmptyMap, FALSE, checks)

\* the line after strip_suffix(" shares")
LiquidityAddedShares(log, checks) ==
    IF ~IsSome(log) THEN [kind |-> "return"]
    ELSE LiquidityAddedMinted(SplitOnce(Unwrap(log), MINTED), checks)

\* the line after strip_prefix("Liquidity added [\"")
LiquidityAddedPrefix(log, checks) ==
    IF ~IsSome(log) THEN [kind |-> "return"]
    ELSE LiquidityAddedShares(StripSuffix(Unwrap(log), SHARES), checks)

ParseLiquidityAdded(text, checks) == LiquidityAddedPrefix(StripPrefix(text, LIQUIDITY_ADDED), checks)

\* "<shares> shares of liquidity removed: receive back ["<amount> <token>", ...]":
\* the tokens after strip_suffix("\"]")
LiquidityRemovedTokens(tokens, checks) ==
    IF ~IsSome(tokens) THEN [kind |-> "return"]
    ELSE LiquidityItems(Split(Unwrap(tokens), AMOUNT_SEP), EmptyMap, TRUE, checks)

\* the line after split_once(" shares of liquidity removed: receive back [\"")
LiquidityRemovedShares(log, checks) ==
    IF ~IsSome(log) THEN [kind |-> "return"]
    ELSE IF ~IsSome(ParseBalance(Unwrap(log)[1])) THEN [kind |-> "return"]
    ELSE LiquidityRemovedTokens(StripSuffix(Unwrap(log)[2], LIST_END), checks)

ParseLiquidityRemoved(text, checks) == LiquidityRemovedShares(SplitOnce(text, LIQUIDITY_REMOVED), checks)

\* the loop over the receipt's logs of an add_liquidity / remove_liquidity action:
\* one liquidity event per line, until a line returns from detect or panics; r is
\* the result of the first line
RECURSIVE LiquidityLoop(_, _, _, _, _, _)
LiquidityLoopEmit(r, logs, remove, context, pool_id, checks, events) ==
    IF r.kind # "ok" THEN [exit |-> r.kind, events |-> events]
    ELSE LiquidityLoop(Tail(logs), remove, context, pool_id, checks,
                       Append(events, OnLiquidityPool(context, create_ref_pool_id(pool_id), r.tokens)))

LiquidityLoop(logs, remove, context, pool_id, checks, events) ==
    IF logs = << >> THEN [exit |-> "continue", events |-> events]
    ELSE LiquidityLoopEmit(IF remove THEN ParseLiquidityRemoved(Head(logs).text, checks)
                           ELSE ParseLiquidityAdded(Head(logs).text, checks),
                           logs, remove, context, pool_id, checks, events)

(***************************************************************************)
(* Ref: the loop over the actions of the receipt (intent extraction and    *)
(* liquidity events).  The loop state is [trader, pools, events, exit];    *)
(* exit is "continue" while the loop runs, "return" or "panic" once a      *)
(* liquidity line has ended detect.                                        *)
(***************************************************************************)
\* the pool ids an ft_on_transfer message yields
FtOnTransferPools(args) ==
    LET call == ParseFtTransferCallArgs(args)
    IN  IF ~IsSome(call) THEN << >>
        ELSE IF IsSome(ParseFtTransferCallArgsExecute(Unwrap(call)))
             THEN Unwrap(ParseFtTransferCallArgsExecute(Unwrap(call)))
        ELSE IF IsSome(ParseFtTransferCallArgsHotZap(Unwrap(call)))
             THEN Unwrap(ParseFtTransferCallArgsHotZap(Unwrap(call)))
        ELSE << >>

\* the trader after an ft_on_transfer action: the predecessor of the spawning receipt
FtOnTransferTrader(trader, receipt, transaction) ==
    LET caller_receipt == FindSpawner(transaction.receipts, receipt.receipt_id)
    IN  IF IsSome(caller_receipt) THEN Unwrap(caller_receipt).predecessor_id ELSE trader

\* the loop state after the log scan of a liquidity action
LiquidityDone(st, r) == [st EXCEPT !.events = r.events, !.exit = r.exit]

RefAction(st, action, receipt, transaction, block, checks) ==
    IF action.kind # "FunctionCall" THEN st
    ELSE IF action.method_name = "ft_on_transfer"
         THEN [st EXCEPT !.trader = FtOnTransferTrader(st.trader, receipt, transaction),
                         !.pools = st.pools \o FtOnTransferPools(action.args)]
    ELSE IF action.method_name \in {"swap", "swap_by_output", "execute_actions"}
         THEN IF IsSome(ParseMethodSwap(action.args))
              THEN [st EXCEPT !.pools = st.pools \o Unwrap(ParseMethodSwap(action.args))]
              ELSE st
    ELSE IF action.method_name = "add_liquidity"
         THEN IF IsSome(ParseAddLiquidity(action.args))
              THEN LiquidityDone(st, LiquidityLoop(receipt.logs, FALSE,
                                     TradeContext(st.trader, block, transaction, receipt),
                                     Unwrap(ParseAddLiquidity(action.args)), checks, st.events))
              ELSE st
    ELSE IF action.method_name = "remove_liquidity"
         THEN IF IsSome(ParseRemoveLiquidity(action.args))
              THEN LiquidityDone(st, LiquidityLoop(receipt.logs, TRUE,
                                     TradeContext(st.trader, block, transaction, receipt),
                                     Unwrap(ParseRemoveLiquidity(action.args)), checks, st.events))
              ELSE st
    ELSE st

RECURSIVE RefActions(_, _, _, _, _, _)
RefActions(st, actions, receipt, transaction, block, checks) ==
    IF actions = << >> \/ st.exit # "continue" THEN st
    ELSE RefActions(RefAction(st, Head(actions), receipt, transaction, block, checks),
                    Tail(actions), receipt, transaction, block, checks)

(***************************************************************************)
(* Ref: relay resolution.                                                  *)
(***************************************************************************)
\* variant: the relayed trader is looked up one level up
ResolveTraderOneLevelUp(trader, receipt, transaction) ==
    IF trader # HOT_RELAYER THEN Some(trader)
    ELSE IF ~IsSome(find_parent_receipt(transaction, receipt)) THEN None
    ELSE Some(Unwrap(find_parent_receipt(transaction, receipt)).predecessor_id)

\* Some(trader), or None where detect returns because a parent is missing
ResolveTrader(trader, receipt, transaction) ==
    IF trader # HOT_RELAYER THEN Some(trader)
    ELSE LET parent == find_parent_receipt(transaction, receipt)
         IN  IF ~IsSome(parent) THEN None
             ELSE LET grandparent == find_parent_receipt(transaction, Unwrap(parent))
                  IN  IF ~IsSome(grandparent) THEN None
                      ELSE Some(Unwrap(grandparent).predecessor_id)

(***************************************************************************)
(* Ref: the swap log grammar (outcome extraction).                         *)
(***************************************************************************)
\* one log line: [kind |-> "skip"], [kind |-> "panic"] (an unwrap of None), or
\* [kind |-> "hop", swap |-> RawPoolSwap with pool "NONE"]
ParseSwapLog(text) ==
    LET stripped == IF IsSome(StripPrefix(text, SWAPPED)) THEN StripPrefix(text, SWAPPED)
                    ELSE StripPrefix(text, SWAP_BY_OUTPUT)
    IN  IF ~IsSome(stripped) THEN [kind |-> "skip"]
        ELSE LET legs == SplitOnce(Unwrap(stripped), FOR)
             IN  IF ~IsSome(legs) THEN [kind |-> "skip"]
                 ELSE LET leg_in == SplitOnce(Unwrap(legs)[1], <<" ">>)
                          leg_out == SplitOnce(Split(Unwrap(legs)[2], <<",">>)[1], <<" ">>)
                      IN  IF ~IsSome(leg_in) \/ ~IsSome(leg_out) THEN [kind |-> "panic"]
                          ELSE LET token_in == ParseAccountId(Unwrap(leg_in)[2])
                                   token_out == ParseAccountId(Unwrap(leg_out)[2])
                                   amount_in == ParseBalance(Unwrap(leg_in)[1])
                                   amount_out == ParseBalance(Unwrap(leg_out)[1])
                               IN  IF IsSome(token_in) /\ IsSome(token_out)
                                      /\ IsSome(amount_in) /\ IsSome(amount_out)
                                   THEN [kind |-> "hop",
                                         swap |-> RawPoolSwap(<<"N", "O", "N", "E">>,
                                                              Unwrap(token_in), Unwrap(token_out),
                                                              Unwrap(amount_in), Unwrap(amount_out))]
                                   ELSE [kind |-> "skip"]

\* map[k] += delta on i128: panics on overflow in a build with overflow checks,
\* wraps otherwise.  None stands for the panic.
AddAssign(m, k, delta, checks) ==
    LET v == MapGetOrZero(m, k) + delta
    IN  IF OverflowsI128(v) /\ checks THEN None
        ELSE Some(MapInsert(m, k, WrapI128(v)))

\* the two updates of balance_changes for one hop
ApplyHop(balance_changes, swap, checks) ==
    LET after_in == AddAssign(balance_changes, swap.token_in, 0 - AsI128(swap.amount_in), checks)
    IN  IF ~IsSome(after_in) THEN None
        ELSE AddAssign(Unwrap(after_in), swap.token_out, AsI128(swap.amount_out), checks)

\* the loop over the logs: [exit, balance_changes, swaps]
RECURSIVE SwapLogs(_, _, _, _)
SwapLogs(logs, balance_changes, swaps, checks) ==
    IF logs = << >>
    THEN [exit |-> "continue", balance_changes |-> balance_changes, swaps |-> swaps]
    ELSE LET r == ParseSwapLog(Head(logs).text)
         IN  IF r.kind = "panic"
             THEN [exit |-> "panic", balance_changes |-> balance_changes, swaps |-> swaps]
             ELSE IF r.kind = "skip" THEN SwapLogs(Tail(logs), balance_changes, swaps, checks)
             ELSE LET next == ApplyHop(balance_changes, r.swap, checks)
                  IN  IF ~IsSome(next)
                      THEN [exit |-> "panic", balance_changes |-> balance_changes, swaps |-> swaps]
                      ELSE SwapLogs(Tail(logs), Unwrap(next), Append(swaps, r.swap), checks)

(***************************************************************************)
(* Ref: detect.  The result of an adapter is [events, exit]: the handler   *)
(* calls it made, in order, and the place where it ended ("panic" when it  *)
(* did not return).                                                        *)
(***************************************************************************)
\* variant: the main network's contract id whatever the network
RefContractIdMainnetOnly(is_testnet) == REF_CONTRACT_ID

RefContractId(is_testnet) == IF is_testnet THEN TESTNET_REF_CONTRACT_ID ELSE REF_CONTRACT_ID

\* variant: the receiver alone decides
RefGuardReceiverOnly(receipt, is_testnet) == receipt.receiver_id = RefContractId(is_testnet)

\* the condition under which detect looks at the receipt
RefGuard(receipt, is_testnet) ==
    is_successful(receipt, FALSE) /\ receipt.receiver_id = RefContractId(is_testnet)

\* variant: the check rejects only a pool list that is too short
LengthMismatchTooFew(pools, swaps) == Len(pools) < Len(swaps)

\* swap_action_pools.len() != swap_logs_in_receipt.len(), where detect returns
LengthMismatch(pools, swaps) == Len(pools) # Len(swaps)

\* raw_pool_swaps: the i-th observed hop with the pool id of the i-th intended hop
CorrelateSwaps(pools, swaps) ==
    [ i \in 1..Len(swaps) |->
        RawPoolSwap(create_ref_pool_id(pools[i]), swaps[i].token_in, swaps[i].token_out,
                    swaps[i].amount_in, swaps[i].amount_out) ]

\* variant: the balance change is handed over first, then the hops
RefEmitBalanceFirst(context, raw_pool_swaps, balance_changes) ==
    (IF RetainNonZero(balance_changes) # EmptyMap
     THEN << OnBalanceChangeSwap(context, RetainNonZero(balance_changes), raw_pool_swaps) >>
     ELSE << >>)
    \o [ i \in 1..Len(raw_pool_swaps) |-> OnRawPoolSwap(context, raw_pool_swaps[i]) ]

\* the emission at the end of detect
RefEmit(context, raw_pool_swaps, balance_changes) ==
    [ i \in 1..Len(raw_pool_swaps) |-> OnRawPoolSwap(context, raw_pool_swaps[i]) ]
    \o (IF RetainNonZero(balance_changes) # EmptyMap
        THEN << OnBalanceChangeSwap(context, RetainNonZero(balance_changes), raw_pool_swaps) >>
        ELSE << >>)

RefDetect(receipt, transaction, block, is_testnet, checks) ==
    IF ~RefGuard(receipt, is_testnet)
    THEN [events |-> << >>, exit |-> "skipped"]
    ELSE
    LET st == RefActions([trader |-> receipt.predecessor_id, pools |-> << >>,
                          events |-> << >>, exit |-> "continue"],
                         IF receipt.kind = "Action" THEN receipt.actions ELSE << >>,
                         receipt, transaction, block, checks)
    IN  IF st.exit = "return" THEN [events |-> st.events, exit |-> "liquidity_return"]
        ELSE IF st.exit = "panic" THEN [events |-> st.events, exit |-> "panic"]
        ELSE
        LET trader == ResolveTrader(st.trader, receipt, transaction)
        IN  IF ~IsSome(trader) THEN [events |-> st.events, exit |-> "relay_abort"]
            ELSE
            LET parsed == SwapLogs(receipt.logs, EmptyMap, << >>, checks)
            IN  IF parsed.exit = "panic" THEN [events |-> st.events, exit |-> "panic"]
                ELSE IF LengthMismatch(st.pools, parsed.swaps)
                     THEN [events |-> st.events, exit |-> "mismatch"]
                ELSE IF parsed.swaps = << >>
                     THEN [events |-> st.events, exit |-> "no_swaps"]
                ELSE [events |-> st.events
                                 \o RefEmit(TradeContext(Unwrap(trader), block, transaction, receipt),
                                            CorrelateSwaps(st.pools, parsed.swaps),
                                            parsed.balance_changes),
                      exit |-> "emitted"]

(***************************************************************************)
(* The log-native adapters.  EventLogData::<T>::deserialize(log) succeeds  *)
(* when the line is an EVENT_JSON log whose data has the shape of T.       *)
(***************************************************************************)
\* EventLogData::<T>::deserialize for the T whose JSON shape is `shape`
DeserializeEvent(log, shape) ==
    IF IsSome(log.event) /\ Unwrap(log.event).data.shape = shape THEN log.event ELSE None

\* -(x as i128): None stands for the panic of a build with overflow checks
NegAsI128(x, checks) ==
    IF OverflowsI128(0 - AsI128(x)) /\ checks THEN None
    ELSE Some(WrapI128(0 - AsI128(x)))

\* the RawPoolSwap / BalanceChangeSwap pair of one structured swap; the pair of
\* HashMap::from_iter keeps the later entry when both tokens are the same
SwapPair(context, swap, checks) ==
    IF ~IsSome(NegAsI128(swap.amount_in, checks))
    THEN [events |-> << OnRawPoolSwap(context, swap) >>, exit |-> "panic"]
    ELSE [events |-> << OnRawPoolSwap(context, swap),
                        OnBalanceChangeSwap(context,
                            MapFromIter(<< <<swap.token_in, Unwrap(NegAsI128(swap.amount_in, checks))>>,
                                           <<swap.token_out, AsI128(swap.amount_out)>> >>),
                            << swap >>) >>,
          exit |-> "continue"]

\* the same pair, the BalanceChangeSwap handed over with a referrer
SwapPairReferrer(context, swap, referrer, checks) ==
    LET r == SwapPair(context, swap, checks)
    IN  [r EXCEPT !.events = [ i \in 1..Len(r.events) |->
                                 IF r.events[i].op = "on_balance_change_swap"
                                 THEN [ op |-> r.events[i].op,
                                        block_height |-> r.events[i].block_height,
                                        context |-> r.events[i].context,
                                        balance_changes |-> r.events[i].balance_changes,
                                        pool_swaps |-> r.events[i].pool_swaps,
                                        referrer |-> referrer ]
                                 ELSE r.events[i] ]]

\* a loop whose iterations gave `results`: the events up to the first panic
RECURSIVE RunLoop(_, _)
RunLoop(results, events) ==
    IF results = << >> THEN [events |-> events, exit |-> "done"]
    ELSE IF Head(results).exit = "panic"
         THEN [events |-> events \o Head(results).events, exit |-> "panic"]
         ELSE RunLoop(Tail(results), events \o Head(results).events)

NoEvents == [events |-> << >>, exit |-> "continue"]

(***************************************************************************)
(* Veax: swaps and pool states.                                            *)
(***************************************************************************)
VeaxLog(log, receipt, transaction, block, checks) ==
    LET event == DeserializeEvent(log, "veax_swap")
    IN  IF IsSome(event) /\ Unwrap(event).event = "swap" /\ Unwrap(event).standard = "veax"
        THEN LET data == Unwrap(event).data
             IN  SwapPair(TradeContext(data.user, block, transaction, receipt),
                          RawPoolSwap(create_veax_pool_id(data.tokens), data.tokens[1], data.tokens[2],
                                      data.amounts[1], data.amounts[2]),
                          checks)
        ELSE NoEvents

VeaxDetect(receipt, transaction, block, is_testnet, checks) ==
    IF is_testnet THEN [events |-> << >>, exit |-> "skipped"]
    ELSE IF ~(is_successful(receipt, FALSE) /\ receipt.receiver_id = VEAX_CONTRACT_ID)
         THEN [events |-> << >>, exit |-> "skipped"]
    ELSE RunLoop([ i \in 1..Len(receipt.logs) |->
                     VeaxLog(receipt.logs[i], receipt, transaction, block, checks) ], << >>)

VeaxStateLog(log, receipt, block) ==
    LET event == DeserializeEvent(log, "veax_pool")
    IN  IF IsSome(event) /\ Unwrap(event).event = "update_pool_state"
           /\ Unwrap(event).standard = "veax"
        THEN [events |-> << OnPoolChange(create_veax_pool_id(Unwrap(event).data.pool),
                                         receipt.receipt_id, block,
                                         [type |-> "Veax", pool |-> Unwrap(event).data]) >>,
              exit |-> "continue"]
        ELSE NoEvents

VeaxDetectChanges(receipt, transaction, block, is_testnet, checks) ==
    IF is_testnet THEN [events |-> << >>, exit |-> "skipped"]
    ELSE IF ~(is_successful(receipt, FALSE) /\ receipt.receiver_id = VEAX_CONTRACT_ID)
         THEN [events |-> << >>, exit |-> "skipped"]
    ELSE RunLoop([ i \in 1..Len(receipt.logs) |-> VeaxStateLog(receipt.logs[i], receipt, block) ],
                 << >>)

(***************************************************************************)
(* RefDcl.                                                                 *)
(***************************************************************************)
RefDclSwap(swap, receipt, transaction, block, checks) ==
    SwapPair(TradeContext(swap.swapper, block, transaction, receipt),
             RawPoolSwap(create_refdcl_pool_id(swap.pool_id), swap.token_in, swap.token_out,
                         swap.amount_in, swap.amount_out),
             checks)

RefDclLog(log, receipt, transaction, block, checks) ==
    LET event == DeserializeEvent(log, "refdcl_swaps")
    IN  IF IsSome(event) /\ Unwrap(event).event = "swap" /\ Unwrap(event).standard = "dcl.ref"
        THEN LET swaps == Unwrap(event).data.swaps
                 r == RunLoop([ i \in 1..Len(swaps) |->
                                  RefDclSwap(swaps[i], receipt, transaction, block, checks) ], << >>)
             IN  [events |-> r.events, exit |-> IF r.exit = "panic" THEN "panic" ELSE "continue"]
        ELSE NoEvents

RefDclDetect(receipt, transaction, block, is_testnet, checks) ==
    IF is_testnet THEN [events |-> << >>, exit |-> "skipped"]
    ELSE IF ~(is_successful(receipt, FALSE) /\ receipt.receiver_id = REFDCL_CONTRACT_ID)
         THEN [events |-> << >>, exit |-> "skipped"]
    ELSE RunLoop([ i \in 1..Len(receipt.logs) |->
                     RefDclLog(receipt.logs[i], receipt, transaction, block, checks) ], << >>)

(***************************************************************************)
(* Aidols and GraFun.                                                      *)
(***************************************************************************)
\* the token the pool is named after: the leg that is not wrap.near
PoolToken(swap) == IF swap.input_token = WRAP_NEAR THEN swap.output_token ELSE swap.input_token

AidolsSwap(swap, receipt, transaction, block, checks) ==
    SwapPairReferrer(TradeContext(swap.user_id, block, transaction, receipt),
                     RawPoolSwap(create_aidols_pool_id(PoolToken(swap)), swap.input_token,
                                 swap.output_token, swap.input_amount, swap.output_amount),
                     swap.referral_id, checks)

AidolsLog(log, receipt, transaction, block, checks) ==
    LET event == DeserializeEvent(log, "aidols_swaps")
    IN  IF IsSome(event) /\ Unwrap(event).event = "token_swap"
        THEN LET swaps == Unwrap(event).data.swaps
                 r == RunLoop([ i \in 1..Len(swaps) |->
                                  AidolsSwap(swaps[i], receipt, transaction, block, checks) ], << >>)
             IN  [events |-> r.events, exit |-> IF r.exit = "panic" THEN "panic" ELSE "continue"]
        ELSE NoEvents

AidolsDetect(receipt, transaction, block, is_testnet, checks) ==
    IF is_testnet THEN [events |-> << >>, exit |-> "skipped"]
    ELSE IF ~(is_successful(receipt, FALSE) /\ receipt.receiver_id = AIDOLS_CONTRACT_ID)
         THEN [events |-> << >>, exit |-> "skipped"]
    ELSE RunLoop([ i \in 1..Len(receipt.logs) |->
                     AidolsLog(receipt.logs[i], receipt, transaction, block, checks) ], << >>)

GraFunSwap(swap, receipt, transaction, block, checks) ==
    SwapPair(TradeContext(swap.user_id, block, transaction, receipt),
             RawPoolSwap(create_grafun_pool_id(PoolToken(swap)), swap.input_token,
                         swap.output_token, swap.input_amount, swap.output_amount),
             checks)

GraFunLog(log, receipt, transaction, block, checks) ==
    LET event == DeserializeEvent(log, "grafun_swaps")
    IN  IF IsSome(event) /\ Unwrap(event).event = "token_swap"
        THEN LET swaps == Unwrap(event).data.swaps
                 r == RunLoop([ i \in 1..Len(swaps) |->
                                  GraFunSwap(swaps[i], receipt, transaction, block, checks) ], << >>)
             IN  [events |-> r.events, exit |-> IF r.exit = "panic" THEN "panic" ELSE "continue"]
        ELSE NoEvents

GraFunDetect(receipt, transaction, block, is_testnet, checks) ==
    IF is_testnet THEN [events |-> << >>, exit |-> "skipped"]
    ELSE IF ~(is_successful(receipt, FALSE) /\ receipt.receiver_id = GRAFUN_CONTRACT_ID)
         THEN [events |-> << >>, exit |-> "skipped"]
    ELSE RunLoop([ i \in 1..Len(receipt.logs) |->
                     GraFunLog(receipt.logs[i], receipt, transaction, block, checks) ], << >>)

(***************************************************************************)
(* Intear Plach.                                                           *)
(***************************************************************************)
\* DexId::from_str: "<deployer>/<id>"
DexIdFromStr(s) ==
    LET parts == SplitOnce(s, <<"/">>)
    IN  IF ~IsSome(parts) THEN None
        ELSE IF ~IsSome(ParseAccountId(Unwrap(parts)[1])) THEN None
        ELSE Some([deployer |-> Unwrap(parts)[1], id |-> Unwrap(parts)[2]])

\* whether deserializing the line as a DexEvent panics: DexId's Deserialize
\* unwraps the result of from_str
DexEventPanics(log) ==
    /\ IsSome(log.event)
    /\ Unwrap(log.event).data.shape = "dex_event"
    /\ ~IsSome(DexIdFromStr(Unwrap(log.event).data.dex_id))

\* EventLogData::<DexEvent<T>>::deserialize for the T whose JSON shape is `shape`
DeserializeDexEvent(log, shape) ==
    IF /\ IsSome(log.event)
       /\ Unwrap(log.event).data.shape = "dex_event"
       /\ Unwrap(log.event).data.event.data.shape = shape
    THEN log.event
    ELSE None

\* the guard shared by the four event kinds of the Plach dex
IsPlachEvent(event, name) ==
    /\ IsSome(event)
    /\ Unwrap(event).event = "dex_event"
    /\ Unwrap(event).standard = "inteardex"
    /\ Unwrap(event).data.event.event = name
    /\ DexIdFromStr(Unwrap(event).data.dex_id) = DexIdFromStr(PLACH_DEX_ID)

\* the account an asset is reported under; None where the code skips the line
AssetAccount(asset) ==
    CASE asset.kind = "Nep141" -> Some(asset.id)
      [] asset.kind = "Near" -> Some(NEAR)
      [] OTHER -> None

PlachSwap(event, receipt, transaction, block) ==
    LET dex == Unwrap(event).data
        data == dex.event.data
        asset_in == AssetAccount(data.request.asset_in)
        asset_out == AssetAccount(data.request.asset_out)
    IN  IF ~IsSome(asset_in) \/ ~IsSome(asset_out) THEN NoEvents
        ELSE LET context == TradeContext(Unwrap(dex.user), block, transaction, receipt)
                 swap == RawPoolSwap(create_plach_pool_id(data.pool_id), Unwrap(asset_in),
                                     Unwrap(asset_out), data.amount_in, data.amount_out)
                 raw == OnRawPoolSwap(context, swap)
             IN  IF ~IsSome(TryFromU128(data.amount_in)) \/ ~IsSome(TryFromU128(data.amount_out))
                 THEN [events |-> << raw >>, exit |-> "continue"]
                 ELSE [events |-> << raw,
                                     [ op |-> "on_balance_change_swap",
                                       block_height |-> context.block_height,
                                       context |-> context,
                                       balance_changes |->
                                           MapFromIter(<< <<Unwrap(asset_in), 0 - Unwrap(TryFromU128(data.amount_in))>>,
                                                          <<Unwrap(asset_out), Unwrap(TryFromU128(data.amount_out))>> >>),
                                       pool_swaps |-> << swap >>,
                                       referrer |-> dex.referrer ] >>,
                       exit |-> "continue"]

PlachPoolUpdated(event, receipt, block) ==
    [events |-> << OnPoolChange(create_plach_pool_id(Unwrap(event).data.event.data.pool_id),
                                receipt.receipt_id, block,
                                [type |-> "IntearPlach", pool |-> Unwrap(event).data.event.data.pool]) >>,
     exit |-> "continue"]

PlachLiquidity(event, removed, receipt, transaction, block) ==
    LET dex == Unwrap(event).data
        data == dex.event.data
        asset_0 == AssetAccount(data.asset_0)
        asset_1 == AssetAccount(data.asset_1)
        amount_0 == TryFromU128(data.amount_0)
        amount_1 == TryFromU128(data.amount_1)
    IN  IF ~IsSome(asset_0) \/ ~IsSome(asset_1) \/ ~IsSome(amount_0) \/ ~IsSome(amount_1)
        THEN NoEvents
        ELSE [events |-> << OnLiquidityPool(TradeContext(Unwrap(dex.user), block, transaction, receipt),
                                create_plach_pool_id(data.pool_id),
                                MapFromIter(<< <<Unwrap(asset_0), IF removed THEN 0 - Unwrap(amount_0)
                                                                  ELSE Unwrap(amount_0)>>,
                                               <<Unwrap(asset_1), IF removed THEN 0 - Unwrap(amount_1)
                                                                  ELSE Unwrap(amount_1)>> >>)) >>,
              exit |-> "continue"]

PlachLog(log, receipt, transaction, block) ==
    IF DexEventPanics(log) THEN [events |-> << >>, exit |-> "panic"]
    ELSE IF /\ IsPlachEvent(DeserializeDexEvent(log, "plach_swap"), "swap")
            /\ IsSome(Unwrap(log.event).data.user)
         THEN PlachSwap(log.event, receipt, transaction, block)
    ELSE IF IsPlachEvent(DeserializeDexEvent(log, "plach_pool_updated"), "pool_updated")
         THEN PlachPoolUpdated(log.event, receipt, block)
    ELSE IF /\ IsPlachEvent(DeserializeDexEvent(log, "plach_liquidity_added"), "liquidity_added")
            /\ IsSome(Unwrap(log.event).data.user)
         THEN PlachLiquidity(log.event, FALSE, receipt, transaction, block)
    ELSE IF /\ IsPlachEvent(DeserializeDexEvent(log, "plach_liquidity_removed"), "liquidity_removed")
            /\ IsSome(Unwrap(log.event).data.user)
         THEN PlachLiquidity(log.event, TRUE, receipt, transaction, block)
    ELSE NoEvents

PlachDetect(receipt, transaction, block, is_testnet, checks) ==
    IF is_testnet THEN [events |-> << >>, exit |-> "skipped"]
    ELSE IF ~(is_successful(receipt, FALSE) /\ receipt.receiver_id = INTEAR_CONTRACT_ID)
         THEN [events |-> << >>, exit |-> "skipped"]
    ELSE RunLoop([ i \in 1..Len(receipt.logs) |->
                     PlachLog(receipt.logs[i], receipt, transaction, block) ], << >>)

(***************************************************************************)
(* on_receipt: the adapters in their fixed order.  An adapter that panics  *)
(* ends the run: the adapters after it are not called.                     *)
(***************************************************************************)
\* variant: the pool states of Veax are detected before its swaps
AdapterResultsStateFirst(receipt, transaction, block, is_testnet, checks) ==
    << RefDetect(receipt, transaction, block, is_testnet, checks),
       AidolsDetect(receipt, transaction, block, is_testnet, checks),
       GraFunDetect(receipt, transaction, block, is_testnet, checks),
       RefDclDetect(receipt, transaction, block, is_testnet, checks),
       VeaxDetectChanges(receipt, transaction, block, is_testnet, checks),
       VeaxDetect(receipt, transaction, block, is_testnet, checks),
       PlachDetect(receipt, transaction, block, is_testnet, checks) >>

\* the adapters' results, in call order.  lib.rs calls the first six; the
\* Plach adapter is reached through TradeIndexer in tests.rs
AdapterResults(receipt, transaction, block, is_testnet, checks) ==
    << RefDetect(receipt, transaction, block, is_testnet, checks),
       AidolsDetect(receipt, transaction, block, is_testnet, checks),
       GraFunDetect(receipt, transaction, block, is_testnet, checks),
       RefDclDetect(receipt, transaction, block, is_testnet, checks),
       VeaxDetect(receipt, transaction, block, is_testnet, checks),
       VeaxDetectChanges(receipt, transaction, block, is_testnet, checks),
       PlachDetect(receipt, transaction, block, is_testnet, checks) >>

\* [events, returned, ends, result]: the handler calls made, the number of adapters
\* that returned, the number of handler calls made when each of them returned, and
\* "Ok" or "panic"
RECURSIVE RunAdapters(_, _, _)
RunAdapters(results, events, ends) ==
    IF results = << >>
    THEN [events |-> events, returned |-> Len(ends), ends |-> ends, result |-> "Ok"]
    ELSE IF Head(results).exit = "panic"
         THEN [events |-> events \o Head(results).events, returned |-> Len(ends), ends |-> ends,
               result |-> "panic"]
         ELSE RunAdapters(Tail(results), events \o Head(results).events,
                          Append(ends, Len(events) + Len(Head(results).events)))

on_receipt(receipt, transaction, block, is_testnet, checks) ==
    RunAdapters(AdapterResults(receipt, transaction, block, is_testnet, checks), << >>, << >>)

(***************************************************************************)
(* process_block: the state mutations of the block.                        *)
(*                                                                         *)
(* A state change is [cause, value]; cause is [type, receipt_hash], value  *)
(* is [type, account_id, key, value].  A key is a sequence of bytes.  The  *)
(* value bytes are [layout, tag, complete, fields]: the borsh layout they  *)
(* were written with, the variant tag, and whether every field is there.   *)
(***************************************************************************)
POOL_ID_CEILING == 420000

\* u64::from_le_bytes; values of 2^30 and more are all reported as 2^30
RECURSIVE FromLeBytes(_)
FromLeBytes(bytes) ==
    IF bytes = << >> THEN 0
    ELSE LET rest == FromLeBytes(Tail(bytes))
         IN  IF rest >= 4194304 THEN 1073741824 ELSE Head(bytes) + 256 * rest

\* <ref_finance_state::Pool as BorshDeserialize>::deserialize
DeserializeRefPool(value) ==
    IF value.layout = "ref_pool" /\ value.tag \in 0..3 /\ value.complete
    THEN Some([kind |-> << "SimplePool", "StableSwapPool", "RatedSwapPool", "DegenSwapPool" >>[value.tag + 1],
               fields |-> value.fields])
    ELSE None

\* <AidolsPoolState as BorshDeserialize>::deserialize
DeserializeAidolsPool(value) ==
    IF value.layout = "aidols_pool" /\ value.complete THEN Some(value.fields) ELSE None

\* <GraFunPoolState as BorshDeserialize>::deserialize
DeserializeGraFunPool(value) ==
    IF value.layout = "grafun_pool" /\ value.complete THEN Some(value.fields) ELSE None

\* the character of a byte, for the bytes an AccountId may hold
ByteChar(b) ==
    CASE b \in 97..122 -> Some(Lower[b - 96])
      [] b \in 48..57 -> Some(Digits[b - 47])
      [] b = 45 -> Some("-")
      [] b = 46 -> Some(".")
      [] b = 95 -> Some("_")
      [] OTHER -> None

\* <AccountId as BorshDeserialize>::deserialize: u32 length, then the characters
DeserializeAccountId(bytes) ==
    IF Len(bytes) < 4 THEN None
    ELSE LET n == FromLeBytes(SubSeq(bytes, 1, 4))
         IN  IF Len(bytes) < 4 + n THEN None
             ELSE IF \E i \in 5..(4 + n) : ~IsSome(ByteChar(bytes[i])) THEN None
             ELSE ParseAccountId([ i \in 1..n |-> Unwrap(ByteChar(bytes[i + 4])) ])

\* variant: only the current prefix 0x00 is taken for a pool key
RefStateChangeCurrentPrefixOnly(change, block) ==
    IF change.cause.type # "ReceiptProcessing" THEN << >>
    ELSE IF ~StartsWith(change.value.key, << 0 >>) THEN << >>
    ELSE IF Len(Tail(change.value.key)) # 8 THEN << >>
    ELSE IF ~IsSome(DeserializeRefPool(change.value.value)) THEN << >>
    ELSE IF FromLeBytes(Tail(change.value.key)) > POOL_ID_CEILING THEN << >>
    ELSE << OnPoolChange(create_ref_pool_id(FromLeBytes(Tail(change.value.key))),
                         change.cause.receipt_hash, block,
                         [type |-> "Ref", pool |-> Unwrap(DeserializeRefPool(change.value.value))]) >>

\* the events of one state change
RefStateChange(change, block) ==
    IF change.cause.type # "ReceiptProcessing" THEN << >>
    ELSE LET key == change.value.key
         IN  IF ~(StartsWith(key, << 0 >>) \/ StartsWith(key, << 112 >>)) THEN << >>
             ELSE IF Len(Tail(key)) # 8 THEN << >>
             ELSE LET pool_id == FromLeBytes(Tail(key))
                      pool == DeserializeRefPool(change.value.value)
                  IN  IF ~IsSome(pool) THEN << >>
                      ELSE IF pool_id > POOL_ID_CEILING THEN << >>
                      ELSE << OnPoolChange(create_ref_pool_id(pool_id), change.cause.receipt_hash,
                                           block, [type |-> "Ref", pool |-> Unwrap(pool)]) >>

\* variant: the cause is not tested; a change with another cause is emitted with
\* the receipt id 0
AidolsStateChangeAnyCause(change, block) ==
    IF ~StartsWith(change.value.key, << 0 >>) THEN << >>
    ELSE IF ~IsSome(DeserializeAccountId(Tail(change.value.key))) THEN << >>
    ELSE IF ~IsSome(DeserializeAidolsPool(change.value.value)) THEN << >>
    ELSE << OnPoolChange(create_aidols_pool_id(Unwrap(DeserializeAccountId(Tail(change.value.key)))),
                         IF change.cause.type = "ReceiptProcessing"
                         THEN change.cause.receipt_hash ELSE 0,
                         block,
                         [type |-> "Aidols",
                          token_id |-> Unwrap(DeserializeAccountId(Tail(change.value.key))),
                          pool |-> Unwrap(DeserializeAidolsPool(change.value.value))]) >>

AidolsStateChange(change, block) ==
    IF change.cause.type # "ReceiptProcessing" THEN << >>
    ELSE LET key == change.value.key
         IN  IF ~StartsWith(key, << 0 >>) THEN << >>
             ELSE LET token_id == DeserializeAccountId(Tail(key))
                      pool == DeserializeAidolsPool(change.value.value)
                  IN  IF ~IsSome(token_id) THEN << >>
                      ELSE IF ~IsSome(pool) THEN << >>
                      ELSE << OnPoolChange(create_aidols_pool_id(Unwrap(token_id)),
                                           change.cause.receipt_hash, block,
                                           [type |-> "Aidols", token_id |-> Unwrap(token_id),
                                            pool |-> Unwrap(pool)]) >>

GraFunStateChange(change, block) ==
    IF change.cause.type # "ReceiptProcessing" THEN << >>
    ELSE LET key == change.value.key
         IN  IF ~StartsWith(key, << 115 >>) THEN << >>
             ELSE LET token_id == DeserializeAccountId(Tail(key))
                      pool == DeserializeGraFunPool(change.value.value)
                  IN  IF ~IsSome(token_id) THEN << >>
                      ELSE IF ~IsSome(pool) THEN << >>
                      ELSE << OnPoolChange(create_grafun_pool_id(Unwrap(token_id)),
                                           change.cause.receipt_hash, block,
                                           [type |-> "GraFun", token_id |-> Unwrap(token_id),
                                            pool |-> Unwrap(pool)]) >>

StateChange(change, block, is_testnet) ==
    IF change.value.type # "DataUpdate" THEN << >>
    ELSE IF change.value.account_id = RefContractId(is_testnet) THEN RefStateChange(change, block)
    ELSE IF change.value.account_id = AIDOLS_CONTRACT_ID THEN AidolsStateChange(change, block)
    ELSE IF change.value.account_id = GRAFUN_CONTRACT_ID THEN GraFunStateChange(change, block)
    ELSE << >>

\* variant: the block is given up at the first data update whose value decodes as
\* no pool
RECURSIVE process_block_until_undecodable(_, _, _)
process_block_until_undecodable(changes, block, is_testnet) ==
    IF changes = << >> THEN << >>
    ELSE IF /\ Head(changes).value.type = "DataUpdate"
            /\ ~IsSome(DeserializeRefPool(Head(changes).value.value))
            /\ ~IsSome(DeserializeAidolsPool(Head(changes).value.value))
            /\ ~IsSome(DeserializeGraFunPool(Head(changes).value.value))
         THEN << >>
    ELSE StateChange(Head(changes), block, is_testnet)
         \o process_block_until_undecodable(Tail(changes), block, is_testnet)

\* the handler calls of process_block, over the state changes of all shards in order
RECURSIVE process_block(_, _, _)
process_block(changes, block, is_testnet) ==
    IF changes = << >> THEN << >>
    ELSE StateChange(Head(changes), block, is_testnet)
         \o process_block(Tail(changes), block, is_testnet)

\* log::warn! of process_block, as [text, pool_id]: the message and the pool id it
\* names (0 when it names none)
Warn(text, pool_id) == [level |-> "warn", text |-> text, pool_id |-> pool_id]

\* the warnings of the Ref branch for one state change
RefStateChangeWarnings(change) ==
    IF change.cause.type # "ReceiptProcessing" THEN << Warn("Update not caused by a receipt", 0) >>
    ELSE IF ~(StartsWith(change.value.key, << 0 >>) \/ StartsWith(change.value.key, << 112 >>))
         THEN << >>
    ELSE IF Len(Tail(change.value.key)) # 8 THEN << Warn("Invalid pool key", 0) >>
    ELSE IF ~IsSome(DeserializeRefPool(change.value.value)) THEN << >>
    ELSE IF FromLeBytes(Tail(change.value.key)) > POOL_ID_CEILING
         THEN << Warn("Pool ID too high, probably a bug", FromLeBytes(Tail(change.value.key))) >>
    ELSE << >>

\* the warnings of the Aidols (prefix 0x00) and GraFun (prefix b"s") branches
TokenStateChangeWarnings(change, prefix) ==
    IF change.cause.type # "ReceiptProcessing" THEN << Warn("Update not caused by a receipt", 0) >>
    ELSE IF ~StartsWith(change.value.key, << prefix >>) THEN << >>
    ELSE IF ~IsSome(DeserializeAccountId(Tail(change.value.key)))
         THEN << Warn("Invalid account id", 0) >>
    ELSE << >>

StateChangeWarnings(change, is_testnet) ==
    IF change.value.type # "DataUpdate" THEN << >>
    ELSE IF change.value.account_id = RefContractId(is_testnet) THEN RefStateChangeWarnings(change)
    ELSE IF change.value.account_id = AIDOLS_CONTRACT_ID THEN TokenStateChangeWarnings(change, 0)
    ELSE IF change.value.account_id = GRAFUN_CONTRACT_ID THEN TokenStateChangeWarnings(change, 115)
    ELSE << >>

\* the warnings process_block logs, over the state changes of all shards in order
RECURSIVE process_block_warnings(_, _)
process_block_warnings(changes, is_testnet) ==
    IF changes = << >> THEN << >>
    ELSE StateChangeWarnings(Head(changes), is_testnet)
         \o process_block_warnings(Tail(changes), is_testnet)

\* variant: the end of a block hands nothing to the handler
process_block_end_no_flush(block) == << >>

\* variant: the end of a block flushes the height after it
process_block_end_next_height(block) == << FlushEvents(block.height + 1) >>

\* the handler call of process_block_end
process_block_end(block) == << FlushEvents(block.height) >>

(***************************************************************************)
(* The inputs the model draws: tokens, amounts, log lines, call arguments, *)
(* transactions, receipts, state changes.                                  *)
(***************************************************************************)
TokenA == <<"a", "a">>

TokenB == <<"b", "b">>

TokenC == <<"c", "c">>

PlainLog(text) == [text |-> text, event |-> None]

\* an EVENT_JSON line; its text after the prefix is the JSON document
EventLog(standard, event, data) ==
    [text |-> EVENT_JSON, event |-> Some([standard |-> standard, event |-> event, data |-> data])]

SwapLine(prefix, amount_in, token_in, amount_out, token_out) ==
    PlainLog(prefix \o Dec(amount_in) \o <<" ">> \o token_in \o FOR
             \o Dec(amount_out) \o <<" ">> \o token_out)

\* the hops of the chains aa -> bb -> cc -> aa
ChainLines ==
    { SwapLine(SWAPPED, 1, TokenA, 2, TokenB),
      SwapLine(SWAPPED, 2, TokenB, 3, TokenC),
      SwapLine(SWAPPED, 3, TokenC, 1, TokenA),
      SwapLine(SWAP_BY_OUTPUT, 3, TokenC, 2, TokenA) }

\* well-formed swap lines with the edge amounts and tokens
EdgeLines ==
    { SwapLine(SWAPPED, 1, TokenA, 1, TokenA),
      SwapLine(SWAPPED, 0, TokenA, 0, TokenB),
      SwapLine(SWAPPED, I128_MAX + 1, TokenA, 1, TokenB),
      SwapLine(SWAPPED, 1, TokenB, U128_MAX, TokenA),
      SwapLine(SWAPPED, I128_MAX, TokenB, I128_MAX, TokenA),
      PlainLog(SwapLine(SWAPPED, 2, TokenB, 1, TokenA).text
               \o <<",", " ", "f", "e", "e", " ", "0">>) }

\* the line in which the Ref contract names the referrer of a swap
ReferralLine ==
    PlainLog(<<"E", "x", "c", "h", "a", "n", "g", "e", " ", "v", "2", ".", "r", "e", "f", "-", "f", "i", "n", "a", "n", "c", "e", ".", "n", "e", "a", "r", " ", "g", "o", "t", " ", "1", " ", "s", "h", "a", "r", "e", "s">>
             \o <<",", " ", "R", "e", "f", "e", "r", "r", "a", "l", " ">> \o <<"r", "e", "f", ".", "n", "e", "a", "r", " ", "g", "o", "t", " ", "1", " ", "s", "h", "a", "r", "e", "s">>)

\* lines that are not swaps: malformed swap lines, liquidity lines, other logs
OtherLines ==
    { PlainLog(SWAPPED \o <<"x">> \o FOR \o <<"y">>),
      PlainLog(SWAPPED \o <<"1", " ">> \o TokenA \o FOR \o <<"2">> \o TokenB),
      PlainLog(SWAPPED \o <<"1", " ">> \o TokenA),
      SwapLine(SWAPPED, 1, TokenA, U128_MAX + 1, TokenB),
      SwapLine(SWAPPED, 1, <<"A", "A">>, 2, TokenB),
      PlainLog(LIQUIDITY_ADDED \o <<"1", " ">> \o TokenA \o AMOUNT_SEP \o <<"2", " ">> \o TokenB
               \o MINTED \o <<"3">> \o SHARES),
      PlainLog(<<"3">> \o LIQUIDITY_REMOVED \o <<"1", " ">> \o TokenA \o AMOUNT_SEP
               \o Dec(I128_MAX + 1) \o <<" ">> \o TokenB \o LIST_END),
      PlainLog(LIQUIDITY_ADDED \o Dec(I128_MAX + 1) \o <<" ">> \o TokenA \o AMOUNT_SEP
               \o <<"1", " ">> \o TokenB \o MINTED \o <<"3">> \o SHARES),
      EventLog("nep141", "ft_transfer", [shape |-> "other"]),
      ReferralLine }

RefLines == ChainLines \cup EdgeLines \cup OtherLines

SeqsUpTo2(S) == { << >> } \cup { << a >> : a \in S } \cup { << a, b >> : a \in S, b \in S }

\* the log lists of the Ref receipts
RefLogLists ==
    { << >> } \cup { << a >> : a \in RefLines }
    \cup { << a, b >> : a \in RefLines, b \in ChainLines \cup EdgeLines }
    \cup { << a, b, c >> : a \in ChainLines, b \in ChainLines, c \in ChainLines }

FunctionCall(method_name, args) ==
    [kind |-> "FunctionCall", method_name |-> method_name, args |-> args]

ActionsArgs(pools) == [shape |-> "actions", pools |-> pools]

BadArgs == [shape |-> "bad"]

\* the action lists of the Ref receipts
RefActionLists ==
    { << >>,
      << [kind |-> "Transfer"] >>,
      << FunctionCall("swap", ActionsArgs(<< 1 >>)) >>,
      << FunctionCall("swap", ActionsArgs(<< 1, 2 >>)) >>,
      << FunctionCall("execute_actions", ActionsArgs(<< 1, 2, 3 >>)) >>,
      << FunctionCall("swap_by_output", ActionsArgs(<< 7 >>)) >>,
      << FunctionCall("swap", BadArgs) >>,
      << FunctionCall("swap", ActionsArgs(<< 1 >>)), FunctionCall("swap", ActionsArgs(<< 2 >>)) >>,
      << FunctionCall("ft_on_transfer", [shape |-> "msg", msg |-> ActionsArgs(<< 1, 2 >>)]) >>,
      << FunctionCall("ft_on_transfer",
                      [shape |-> "msg", msg |-> [shape |-> "hot_zap_actions", pools |-> << 5 >>]]) >>,
      << FunctionCall("ft_on_transfer", [shape |-> "msg", msg |-> BadArgs]) >>,
      << FunctionCall("add_liquidity", [shape |-> "add_liquidity", pool_id |-> 4]) >>,
      << FunctionCall("remove_liquidity", [shape |-> "remove_liquidity", pool_id |-> 4]) >>,
      << FunctionCall("swap", ActionsArgs(<< 1 >>)),
         FunctionCall("add_liquidity", [shape |-> "add_liquidity", pool_id |-> 4]) >> }

\* the receipt under detection has id 3; the other receipts of its transaction
TxReceipt(receipt_id, predecessor_id, receipt_ids) ==
    [receipt_id |-> receipt_id, predecessor_id |-> predecessor_id, receipt_ids |-> receipt_ids]

Transaction(receipts) == [hash |-> "tx", receipts |-> receipts]

\* (predecessor of the receipt, the rest of its transaction)
Callers ==
    { << "alice.near", Transaction(<< >>) >>,
      << "token.near", Transaction(<< >>) >>,
      << "token.near", Transaction(<< Some(TxReceipt(2, "alice.near", {3})) >>) >>,
      << HOT_RELAYER, Transaction(<< >>) >>,
      << HOT_RELAYER, Transaction(<< Some(TxReceipt(2, "carol.near", {3})) >>) >>,
      << HOT_RELAYER, Transaction(<< None, Some(TxReceipt(1, "bob.near", {2})),
                                     Some(TxReceipt(2, "carol.near", {3})) >>) >>,
      << "token.near", Transaction(<< Some(TxReceipt(1, "bob.near", {2})),
                                      Some(TxReceipt(2, HOT_RELAYER, {3})) >>) >> }

Receipt(receiver_id, predecessor_id, status, actions, logs) ==
    [receipt_id |-> 3, receiver_id |-> receiver_id, predecessor_id |-> predecessor_id,
     status |-> status, kind |-> "Action", actions |-> actions, logs |-> logs,
     receipt_ids |-> {}]

\* successful receipts addressed to the Ref contract of the main network
RefInputs ==
    { << Receipt(REF_CONTRACT_ID, "alice.near", "SuccessValue", a, l), Transaction(<< >>) >> :
        a \in RefActionLists, l \in RefLogLists }
    \cup { << Receipt(REF_CONTRACT_ID, c[1], "SuccessValue", a, l), c[2] >> :
             c \in Callers,
             a \in { << FunctionCall("swap", ActionsArgs(<< 1 >>)) >>,
                     << FunctionCall("ft_on_transfer",
                                     [shape |-> "msg", msg |-> ActionsArgs(<< 1, 2 >>)]) >> },
             l \in SeqsUpTo2(ChainLines) }

Assets == { [kind |-> "Nep141", id |-> TokenA], [kind |-> "Nep141", id |-> TokenB],
            [kind |-> "Near"], [kind |-> "Nep245", id |-> TokenA] }

\* (asset_in, asset_out) of the swaps of the Intear pools
AssetPairs ==
    { << x, y >> \in Assets \X Assets : x.kind = "Nep141" \/ y.kind = "Nep141" \/ x = y }

\* (amount_in, amount_out) of the structured swap events
SwapAmounts ==
    { << 1, 2 >>, << 0, 2 >>, << 2, 0 >>, << I128_MAX + 1, 1 >>, << 1, U128_MAX >> }

\* (token_in, token_out) of the structured swap events
TokenPairs == { << TokenA, TokenB >>, << TokenA, TokenA >>, << WRAP_NEAR, TokenA >>,
                << TokenB, WRAP_NEAR >> }

Referrers == { None, Some("ref.near") }

VeaxEvents ==
    { EventLog(st, "swap", [shape |-> "veax_swap", user |-> "alice.near", tokens |-> t, amounts |-> a]) :
        st \in {"veax", "other"}, t \in TokenPairs, a \in SwapAmounts }
    \cup { EventLog("veax", "update_pool_state", [shape |-> "veax_pool", pool |-> t]) : t \in TokenPairs }

RefDclSwapEvent(t, a) ==
    [amount_in |-> a[1], amount_out |-> a[2], pool_id |-> t[1] \o <<"|">> \o t[2],
     swapper |-> "alice.near", token_in |-> t[1], token_out |-> t[2]]

RefDclEvents ==
    { EventLog("dcl.ref", "swap", [shape |-> "refdcl_swaps", swaps |-> << RefDclSwapEvent(t, a) >>]) :
        t \in TokenPairs, a \in SwapAmounts }
    \cup { EventLog("dcl.ref", "swap",
                    [shape |-> "refdcl_swaps",
                     swaps |-> << RefDclSwapEvent(<< TokenA, TokenB >>, a),
                                  RefDclSwapEvent(<< TokenB, TokenC >>, << 2, 3 >>) >>]) :
             a \in SwapAmounts }

TokenSwapEvent(t, a, referrer) ==
    [input_amount |-> a[1], input_token |-> t[1], output_amount |-> a[2], output_token |-> t[2],
     referral_id |-> referrer, user_id |-> "alice.near"]

AidolsEvents ==
    { EventLog("aidols", "token_swap",
               [shape |-> "aidols_swaps", swaps |-> << TokenSwapEvent(t, a, r) >>]) :
        t \in TokenPairs, a \in SwapAmounts, r \in Referrers }

GraFunEvents ==
    { EventLog("grafun", "token_swap",
               [shape |-> "grafun_swaps", swaps |-> << TokenSwapEvent(t, a, None) >>]) :
        t \in TokenPairs, a \in SwapAmounts }

DexEvent(dex_id, user, referrer, name, data) ==
    EventLog("inteardex", "dex_event",
             [shape |-> "dex_event", dex_id |-> dex_id, user |-> user, referrer |-> referrer,
              event |-> [event |-> name, data |-> data]])

PlachEvents ==
    { DexEvent(PLACH_DEX_ID, Some("alice.near"), r, "swap",
               [shape |-> "plach_swap", pool_id |-> 0,
                request |-> [asset_in |-> p[1], asset_out |-> p[2]],
                amount_in |-> a[1], amount_out |-> a[2]]) :
        p \in AssetPairs, a \in SwapAmounts, r \in Referrers }
    \cup { DexEvent(d, u, None, "swap",
                    [shape |-> "plach_swap", pool_id |-> 12,
                     request |-> [asset_in |-> [kind |-> "Near"],
                                  asset_out |-> [kind |-> "Nep141", id |-> TokenA]],
                     amount_in |-> 1, amount_out |-> 2]) :
             d \in { PLACH_DEX_ID, <<"x", "y", "k">>, <<"o", "t", "h", "e", "r", ".", "n", "e", "a", "r", "/", "x", "y", "k">> },
             u \in { None, Some("alice.near") } }
    \cup { DexEvent(PLACH_DEX_ID, None, None, "pool_updated",
                    [shape |-> "plach_pool_updated", pool_id |-> 0, pool |-> "pool"]) }
    \cup { DexEvent(PLACH_DEX_ID, Some("alice.near"), None, n[1],
                    [shape |-> n[2], pool_id |-> 0, asset_0 |-> [kind |-> "Near"],
                     asset_1 |-> [kind |-> "Nep141", id |-> TokenA],
                     amount_0 |-> a[1], amount_1 |-> a[2]]) :
             n \in { << "liquidity_added", "plach_liquidity_added" >>,
                     << "liquidity_removed", "plach_liquidity_removed" >> },
             a \in SwapAmounts }

NativeEvents == VeaxEvents \cup RefDclEvents \cup AidolsEvents \cup GraFunEvents \cup PlachEvents

Receivers == { REF_CONTRACT_ID, TESTNET_REF_CONTRACT_ID, AIDOLS_CONTRACT_ID, GRAFUN_CONTRACT_ID,
               REFDCL_CONTRACT_ID, VEAX_CONTRACT_ID, INTEAR_CONTRACT_ID, "other.near" }

Statuses == { "SuccessValue", "SuccessReceiptId", "Failure", "Unknown" }

\* receipts of every receiver and status carrying one structured event
NativeInputs ==
    { << Receipt(to, "alice.near", st, << >>, << e >>), Transaction(<< >>) >> :
        to \in Receivers \ { REF_CONTRACT_ID, TESTNET_REF_CONTRACT_ID },
        st \in { "SuccessValue", "Failure" }, e \in NativeEvents }

\* receipts of every receiver and status carrying Ref calls and Ref log lines
MixedInputs ==
    { << Receipt(to, "alice.near", st, a, l), Transaction(<< >>) >> :
        to \in Receivers, st \in Statuses,
        a \in { << FunctionCall("swap", ActionsArgs(<< 1 >>)) >>,
                << FunctionCall("add_liquidity", [shape |-> "add_liquidity", pool_id |-> 4]) >> },
        l \in { << a >> : a \in ChainLines \cup OtherLines } }

\* a receipt that is not an action receipt
DataInputs ==
    { << [Receipt(REF_CONTRACT_ID, "alice.near", "SuccessValue", << >>, l) EXCEPT !.kind = "Data"],
         Transaction(<< >>) >> : l \in SeqsUpTo2(ChainLines) }

\* well-formed liquidity lines of the Ref contract
LiquidityAddedLine ==
    PlainLog(LIQUIDITY_ADDED \o <<"1", " ">> \o TokenA \o AMOUNT_SEP \o <<"2", " ">> \o TokenB
             \o MINTED \o <<"3">> \o SHARES)

LiquidityRemovedLine ==
    PlainLog(<<"3">> \o LIQUIDITY_REMOVED \o <<"1", " ">> \o TokenA \o AMOUNT_SEP
             \o <<"2", " ">> \o TokenB \o LIST_END)

\* receipts with a liquidity call, alone or beside a swap call, whose logs mix
\* liquidity lines with other lines
LiquidityInputs ==
    { << Receipt(REF_CONTRACT_ID, "alice.near", "SuccessValue", a, l), Transaction(<< >>) >> :
        a \in { << FunctionCall("add_liquidity", [shape |-> "add_liquidity", pool_id |-> 4]) >>,
                << FunctionCall("remove_liquidity", [shape |-> "remove_liquidity", pool_id |-> 4]) >>,
                << FunctionCall("add_liquidity", [shape |-> "add_liquidity", pool_id |-> 4]),
                   FunctionCall("swap", ActionsArgs(<< 1 >>)) >>,
                << FunctionCall("remove_liquidity", [shape |-> "remove_liquidity", pool_id |-> 4]),
                   FunctionCall("add_liquidity", [shape |-> "add_liquidity", pool_id |-> 5]) >> },
        l \in { << SwapLine(SWAPPED, 1, TokenA, 2, TokenB), LiquidityAddedLine >>,
                << LiquidityAddedLine, SwapLine(SWAPPED, 1, TokenA, 2, TokenB) >>,
                << LiquidityAddedLine, LiquidityAddedLine >>,
                << ReferralLine, LiquidityRemovedLine >>,
                << LiquidityRemovedLine, LiquidityAddedLine >> } }

\* liquidity receipts of every caller, the relayer among them
RelayedLiquidityInputs ==
    { << Receipt(REF_CONTRACT_ID, c[1], "SuccessValue", a, << LiquidityAddedLine >>), c[2] >> :
        c \in Callers,
        a \in { << FunctionCall("add_liquidity", [shape |-> "add_liquidity", pool_id |-> 4]) >>,
                << FunctionCall("add_liquidity", [shape |-> "add_liquidity", pool_id |-> 4]),
                   FunctionCall("ft_on_transfer", [shape |-> "msg", msg |-> ActionsArgs(<< 1 >>)]),
                   FunctionCall("add_liquidity", [shape |-> "add_liquidity", pool_id |-> 5]) >> } }

\* the two tokens of one pool, in both orders
PoolDirections == { << TokenA, TokenB >>, << TokenB, TokenA >> }

\* a Veax receipt that logs the state of the pool of aa and bb and two swaps through it
VeaxDirectionInputs ==
    { << Receipt(VEAX_CONTRACT_ID, "alice.near", "SuccessValue", << >>,
                 << EventLog("veax", "update_pool_state", [shape |-> "veax_pool", pool |-> p]),
                    EventLog("veax", "swap", [shape |-> "veax_swap", user |-> "alice.near",
                                              tokens |-> t, amounts |-> << 1, 2 >>]),
                    EventLog("veax", "swap", [shape |-> "veax_swap", user |-> "alice.near",
                                              tokens |-> u, amounts |-> << 2, 1 >>]) >>),
         Transaction(<< >>) >> :
        p \in { << TokenA, TokenB >> }, t \in PoolDirections, u \in PoolDirections }

\* Aidols and GraFun receipts that buy and sell one token for wrap.near
LaunchpadDirectionInputs ==
    { << Receipt(to[1], "alice.near", "SuccessValue", << >>,
                 << EventLog(to[2], "token_swap",
                             [shape |-> to[3],
                              swaps |-> << TokenSwapEvent(<< WRAP_NEAR, tk >>, << 1, 2 >>, None),
                                           TokenSwapEvent(<< tk, WRAP_NEAR >>, << 2, 1 >>, None) >>]) >>),
         Transaction(<< >>) >> :
        to \in { << AIDOLS_CONTRACT_ID, "aidols", "aidols_swaps" >>,
                 << GRAFUN_CONTRACT_ID, "grafun", "grafun_swaps" >> },
        tk \in { TokenA, TokenB } }

DetectInputs ==
    RefInputs \cup NativeInputs \cup MixedInputs \cup DataInputs \cup LiquidityInputs
    \cup RelayedLiquidityInputs \cup VeaxDirectionInputs \cup LaunchpadDirectionInputs

\* keys of the state changes: a prefix byte, then a little-endian u64 or a borsh string
RefKey(prefix, pool_id) ==
    << prefix, pool_id % 256, (pool_id \div 256) % 256, (pool_id \div 65536) % 256, 0, 0, 0, 0, 0 >>

\* the byte of a character of an account id
CharByte(c) == CHOOSE b \in 45..122 : ByteChar(b) = Some(c)

TokenKey(prefix, token) == << prefix, Len(token), 0, 0, 0 >> \o [ i \in 1..Len(token) |-> CharByte(token[i]) ]

RefPoolValue(tag, complete) ==
    [layout |-> "ref_pool", tag |-> tag, complete |-> complete, fields |-> "fields"]

DataUpdate(cause, account_id, key, value) ==
    [cause |-> cause,
     value |-> [type |-> "DataUpdate", account_id |-> account_id, key |-> key, value |-> value]]

ReceiptProcessing(receipt_hash) == [type |-> "ReceiptProcessing", receipt_hash |-> receipt_hash]

StateChanges ==
    { DataUpdate(ReceiptProcessing(3), REF_CONTRACT_ID, RefKey(pfx, id), RefPoolValue(tag, TRUE)) :
        pfx \in { 0, 112, 7 }, id \in { 5, POOL_ID_CEILING, POOL_ID_CEILING + 1 }, tag \in { 0, 3, 4 } }
    \cup { DataUpdate(ReceiptProcessing(3), to, RefKey(0, 5), RefPoolValue(1, c)) :
             to \in { REF_CONTRACT_ID, TESTNET_REF_CONTRACT_ID, "other.near" }, c \in BOOLEAN }
    \cup { DataUpdate([type |-> "TransactionProcessing"], REF_CONTRACT_ID, RefKey(0, 5),
                      RefPoolValue(0, TRUE)),
           DataUpdate(ReceiptProcessing(3), REF_CONTRACT_ID, << 0, 5, 0 >>, RefPoolValue(0, TRUE)),
           [cause |-> ReceiptProcessing(3), value |-> [type |-> "AccountUpdate"]] }
    \cup { DataUpdate(ReceiptProcessing(3), AIDOLS_CONTRACT_ID, TokenKey(pfx, TokenA),
                      [layout |-> l, complete |-> TRUE, fields |-> "fields"]) :
             pfx \in { 0, 115 }, l \in { "aidols_pool", "grafun_pool" } }
    \cup { DataUpdate(ReceiptProcessing(3), GRAFUN_CONTRACT_ID, TokenKey(pfx, TokenA),
                      [layout |-> l, complete |-> TRUE, fields |-> "fields"]) :
             pfx \in { 0, 115 }, l \in { "aidols_pool", "grafun_pool" } }

\* the state changes of a block, over all its shards
StateChangeLists == { << >> } \cup { << c >> : c \in StateChanges }

\* the block with this height
Block(height) == [height |-> height, timestamp_nanosec |-> 1000 + height]

\* the receipts the driver offers when whole blocks are run
PipelineInputs ==
    { << Receipt(to, "alice.near", st, << FunctionCall("swap", ActionsArgs(<< 1 >>)) >>, l),
         Transaction(<< >>) >> :
        to \in { REF_CONTRACT_ID, VEAX_CONTRACT_ID, "other.near" },
        st \in { "SuccessValue", "Failure" },
        l \in { << SwapLine(SWAPPED, 1, TokenA, 2, TokenB) >>,
                << PlainLog(SWAPPED \o <<"x">> \o FOR \o <<"y">>) >>,
                << EventLog("veax", "swap", [shape |-> "veax_swap", user |-> "alice.near",
                                             tokens |-> << TokenA, TokenB >>, amounts |-> << 1, 2 >>]) >> } }

(***************************************************************************)
(* The handler (PushToRedisStream).  Each event operation publishes the    *)
(* event to its stream and expects the publish to succeed.                 *)
(***************************************************************************)
\* variant: a failed publish is skipped and the calls after it go on
HandlerRunSkipping(events, fail_at) ==
    [calls |-> events,
     published |-> IF fail_at \in 1..Len(events)
                   THEN SubSeq(events, 1, fail_at - 1) \o SubSeq(events, fail_at + 1, Len(events))
                   ELSE events,
     failed |-> IF fail_at \in 1..Len(events) THEN fail_at ELSE 0,
     result |-> "Ok"]

\* the handler calls of one call of the indexer when the publish of call number
\* fail_at fails (none fails when there is no such call): [calls, published, failed,
\* result], the calls made, the events published, the number of the call that
\* failed (0 for none), and "Ok" or "panic" (.expect on the Err)
HandlerRun(events, fail_at) ==
    IF fail_at \in 1..Len(events)
    THEN [calls |-> SubSeq(events, 1, fail_at), published |-> SubSeq(events, 1, fail_at - 1),
          failed |-> fail_at, result |-> "panic"]
    ELSE [calls |-> events, published |-> events, failed |-> 0, result |-> "Ok"]

(***************************************************************************)
(* The run.  The driver (inindexer's run_indexer) feeds the blocks in      *)
(* order and calls, for each block, process_block, then on_receipt for     *)
(* every receipt, then process_block_end.  A panic ends the run.           *)
(***************************************************************************)
VARIABLES
    is_testnet,       \* TradeIndexer.is_testnet
    overflow_checks,  \* whether the build panics on integer overflow (debug) or wraps
    height,           \* height of the block in progress, 0 before the first
    pc,               \* "idle" between blocks, "receipts" inside one, "stopped" after a panic
    offered,          \* receipts offered in the block in progress
    calls,            \* every handler call so far, as [op, block_height]
    sink,             \* every event published to the streams so far, as [op, block_height]
    last,             \* the last call of the driver: its input and the handler calls it made
    remembered        \* one earlier on_receipt call of the block in progress, or none

vars == << is_testnet, overflow_checks, height, pc, offered, calls, sink, last, remembered >>

\* the handler calls, reduced to the operation and the height they carry
Ops(events) == [ i \in 1..Len(events) |-> [op |-> events[i].op, block_height |-> events[i].block_height] ]

Init ==
    /\ is_testnet \in BOOLEAN
    /\ overflow_checks \in BOOLEAN
    /\ height = 0
    /\ pc = "idle"
    /\ offered = 0
    /\ calls = << >>
    /\ sink = << >>
    /\ last = [call |-> "none"]
    /\ remembered = [call |-> "none"]

\* the order in which run_indexer calls the indexer: a block begins when none is in
\* progress, its receipts are offered one by one, then it ends
DriverMayBeginBlock(blocks) == pc = "idle" /\ height < blocks

DriverMayOfferReceipt(receipts) == pc = "receipts" /\ offered < receipts

DriverMayEndBlock == pc = "receipts"

\* the state changes process_block has gone through when it makes handler call
\* number k: every state change makes at most one
RECURSIVE ChangesUntilCall(_, _, _, _)
ChangesUntilCall(changes, block, testnet, k) ==
    IF changes = << >> \/ k = 0 THEN << >>
    ELSE << Head(changes) >>
         \o ChangesUntilCall(Tail(changes), block, testnet,
                             k - Len(StateChange(Head(changes), block, testnet)))

\* the record of a process_block call; h is the handler's run over its events
ProcessBlockCall(changes, block, testnet, h) ==
    [call |-> "process_block", changes |-> changes, block |-> block, events |-> h.calls,
     warnings |-> process_block_warnings(IF h.failed = 0 THEN changes
                                         ELSE ChangesUntilCall(changes, block, testnet, h.failed),
                                         testnet),
     published |-> h.published, failed |-> h.failed, result |-> h.result]

ProcessBlock(blocks, change_lists, faults) ==
    /\ DriverMayBeginBlock(blocks)
    /\ \E changes \in change_lists, fail_at \in faults :
         last' = ProcessBlockCall(changes, Block(height + 1), is_testnet,
                                  HandlerRun(process_block(changes, Block(height + 1), is_testnet),
                                             fail_at))
    /\ calls' = calls \o Ops(last'.events)
    /\ sink' = sink \o Ops(last'.published)
    /\ height' = height + 1
    /\ pc' = IF last'.result = "panic" THEN "stopped" ELSE "receipts"
    /\ offered' = 0
    /\ UNCHANGED << is_testnet, overflow_checks, remembered >>

\* the record of an on_receipt call; r is what the adapters did, h the handler's run
\* over their events.  returned counts the adapters that returned before the run
\* stopped
OnReceiptCall(input, block, r, h) ==
    [call |-> "on_receipt", receipt |-> input[1], transaction |-> input[2], block |-> block,
     events |-> h.calls, published |-> h.published, failed |-> h.failed,
     returned |-> IF h.failed = 0 THEN r.returned
                  ELSE Cardinality({ i \in DOMAIN r.ends : r.ends[i] < h.failed }),
     result |-> IF h.failed = 0 THEN r.result ELSE h.result]

\* the adapters' events given to the handler
OnReceiptRun(input, block, r, fail_at) == OnReceiptCall(input, block, r, HandlerRun(r.events, fail_at))

\* variant: a receipt offered after the handler was given events of this block is
\* taken for one already indexed and hands over nothing
OnReceiptOncePerBlock(inputs, receipts, faults) ==
    /\ DriverMayOfferReceipt(receipts)
    /\ \E input \in inputs, fail_at \in faults :
         last' = OnReceiptRun(input, Block(height),
                              IF \E i \in DOMAIN calls : calls[i].block_height = height
                              THEN [events |-> << >>, returned |-> 7, ends |-> << >>, result |-> "Ok"]
                              ELSE on_receipt(input[1], input[2], Block(height), is_testnet,
                                              overflow_checks),
                              fail_at)
    /\ calls' = calls \o Ops(last'.events)
    /\ sink' = sink \o Ops(last'.published)
    /\ pc' = IF last'.result = "panic" THEN "stopped" ELSE "receipts"
    /\ offered' = offered + 1
    /\ remembered' \in (IF offered + 1 < receipts THEN { remembered, last' } ELSE { remembered })
    /\ UNCHANGED << is_testnet, overflow_checks, height >>

\* remembered keeps, of the calls after which another receipt of the block may
\* follow, any one
OnReceipt(inputs, receipts, faults) ==
    /\ DriverMayOfferReceipt(receipts)
    /\ \E input \in inputs, fail_at \in faults :
         last' = OnReceiptRun(input, Block(height),
                              on_receipt(input[1], input[2], Block(height), is_testnet,
                                         overflow_checks),
                              fail_at)
    /\ calls' = calls \o Ops(last'.events)
    /\ sink' = sink \o Ops(last'.published)
    /\ pc' = IF last'.result = "panic" THEN "stopped" ELSE "receipts"
    /\ offered' = offered + 1
    /\ remembered' \in (IF offered + 1 < receipts THEN { remembered, last' } ELSE { remembered })
    /\ UNCHANGED << is_testnet, overflow_checks, height >>

\* flush_events publishes nothing
ProcessBlockEnd ==
    /\ DriverMayEndBlock
    /\ last' = [call |-> "process_block_end", block |-> Block(height),
                events |-> process_block_end(Block(height)), published |-> << >>,
                failed |-> 0, result |-> "Ok"]
    /\ calls' = calls \o Ops(last'.events)
    /\ pc' = "idle"
    /\ remembered' = [call |-> "none"]
    /\ UNCHANGED << is_testnet, overflow_checks, height, offered, sink >>

\* the calls whose publish may fail when whole blocks are run
MaxFaultCall == 2

Next ==
    \/ ProcessBlock(MaxBlocks, StateChangeLists, 0..MaxFaultCall)
    \/ OnReceipt(PipelineInputs, MaxReceipts, 0..MaxFaultCall)
    \/ ProcessBlockEnd

Spec == Init /\ [][Next]_vars

\* one block with one receipt, drawn from the wide input set
NextDetect ==
    \/ ProcessBlock(1, { << >> }, { 0 })
    \/ OnReceipt(DetectInputs, 1, { 0 })
    \/ ProcessBlockEnd

SpecDetect == Init /\ [][NextDetect]_vars

\* the receipts of the block in which receipts are offered again
MaxReplays == 3

\* receipts of the protocols, offered in any order and any number of times
ReplayInputs ==
    { << Receipt(REF_CONTRACT_ID, "alice.near", "SuccessValue",
                 << FunctionCall("swap", ActionsArgs(<< 1 >>)) >>,
                 << SwapLine(SWAPPED, 1, TokenA, 2, TokenB) >>), Transaction(<< >>) >>,
      << Receipt(TESTNET_REF_CONTRACT_ID, "alice.near", "SuccessValue",
                 << FunctionCall("swap", ActionsArgs(<< 1, 2 >>)) >>,
                 << SwapLine(SWAPPED, 1, TokenA, 2, TokenB), SwapLine(SWAPPED, 2, TokenB, 3, TokenC) >>),
         Transaction(<< >>) >>,
      << Receipt(REF_CONTRACT_ID, "alice.near", "SuccessValue",
                 << FunctionCall("add_liquidity", [shape |-> "add_liquidity", pool_id |-> 4]) >>,
                 << PlainLog(LIQUIDITY_ADDED \o <<"1", " ">> \o TokenA \o AMOUNT_SEP \o <<"2", " ">>
                             \o TokenB \o MINTED \o <<"3">> \o SHARES) >>), Transaction(<< >>) >>,
      << Receipt(REF_CONTRACT_ID, "token.near", "SuccessValue",
                 << FunctionCall("ft_on_transfer", [shape |-> "msg", msg |-> ActionsArgs(<< 1 >>)]) >>,
                 << SwapLine(SWAPPED, 3, TokenC, 1, TokenA) >>),
         Transaction(<< Some(TxReceipt(2, "alice.near", {3})) >>) >>,
      << Receipt(REF_CONTRACT_ID, "alice.near", "SuccessValue",
                 << FunctionCall("swap", ActionsArgs(<< 1 >>)) >>,
                 << SwapLine(SWAPPED, I128_MAX + 1, TokenA, 1, TokenB) >>), Transaction(<< >>) >>,
      << Receipt(VEAX_CONTRACT_ID, "alice.near", "SuccessValue", << >>,
                 << EventLog("veax", "swap", [shape |-> "veax_swap", user |-> "alice.near",
                                              tokens |-> << TokenA, TokenB >>, amounts |-> << 1, 2 >>]) >>),
         Transaction(<< >>) >>,
      << Receipt(AIDOLS_CONTRACT_ID, "alice.near", "SuccessValue", << >>,
                 << EventLog("aidols", "token_swap",
                             [shape |-> "aidols_swaps",
                              swaps |-> << TokenSwapEvent(<< WRAP_NEAR, TokenA >>, << 1, 2 >>,
                                                          Some("ref.near")) >>]) >>),
         Transaction(<< >>) >>,
      << Receipt("other.near", "alice.near", "SuccessValue",
                 << FunctionCall("swap", ActionsArgs(<< 1 >>)) >>,
                 << SwapLine(SWAPPED, 1, TokenA, 2, TokenB) >>), Transaction(<< >>) >> }

\* one block whose receipts are drawn from ReplayInputs
NextReplay ==
    \/ ProcessBlock(1, { << >> }, { 0 })
    \/ OnReceipt(ReplayInputs, MaxReplays, { 0 })
    \/ ProcessBlockEnd

SpecReplay == Init /\ [][NextReplay]_vars

\* the identifiers the pool ids are made of: numbers of Ref and Intear pools,
\* strings of Ref DCL pools, token ids of Aidols, GraFun and Veax pools
PoolNumbers == { 0, 1, 12, POOL_ID_CEILING }

PoolStrings ==
    { << >>, <<"1">>, <<"1", "2">>, <<"-", "1">>, TokenA \o <<"|">> \o TokenB \o <<"|", "1">>,
      <<"D", "C", "L", "-", "1">> }

PoolTokens == { TokenA, <<"1">>, <<"a", "-", "b">>, <<"v", "e", "a", "x", "-", "1">>, WRAP_NEAR }

\* (protocol, identifier, pool id) for every protocol and identifier
PoolIdsMade ==
    { << "REF", n, create_ref_pool_id(n) >> : n \in PoolNumbers }
    \cup { << "REFDCL", x, create_refdcl_pool_id(x) >> : x \in PoolStrings }
    \cup { << "VEAX", t, create_veax_pool_id(t) >> : t \in PoolTokens \X PoolTokens }
    \cup { << "AIDOLS", t, create_aidols_pool_id(t) >> : t \in PoolTokens }
    \cup { << "GRAFUN", t, create_grafun_pool_id(t) >> : t \in PoolTokens }
    \cup { << "INTEARPLACH", n, create_plach_pool_id(n) >> : n \in PoolNumbers }

\* a pool id is made; remembered keeps any one made before
CreatePoolId ==
    /\ \E made \in PoolIdsMade :
         last' = [call |-> "create_pool_id", protocol |-> made[1], pool_id |-> made[3]]
    /\ remembered' \in { remembered, last' }
    /\ UNCHANGED << is_testnet, overflow_checks, height, pc, offered, calls, sink >>

NextPoolIds == CreatePoolId

SpecPoolIds == Init /\ [][NextPoolIds]_vars

\* the receipts of the block whose execution outcome is a failure; the other
\* receipts named by the state changes succeeded
FailedReceipts == { 4 }

\* state changes beyond those of StateChanges: causes other than a receipt for
\* every contract, a failed receipt as the cause, truncated values, a pool index
\* with a high byte set, account ids that do not decode
MoreStateChanges ==
    { DataUpdate(c, AIDOLS_CONTRACT_ID, TokenKey(0, TokenA),
                 [layout |-> "aidols_pool", complete |-> TRUE, fields |-> "fields"]) :
        c \in { [type |-> "TransactionProcessing"], ReceiptProcessing(4) } }
    \cup { DataUpdate(c, GRAFUN_CONTRACT_ID, TokenKey(115, TokenB),
                      [layout |-> "grafun_pool", complete |-> TRUE, fields |-> "fields"]) :
             c \in { [type |-> "TransactionProcessing"], ReceiptProcessing(4),
                     ReceiptProcessing(5) } }
    \cup { DataUpdate(ReceiptProcessing(4), REF_CONTRACT_ID, RefKey(0, 6),
                      RefPoolValue(2, TRUE)),
           DataUpdate(ReceiptProcessing(5), REF_CONTRACT_ID, RefKey(112, 6), RefPoolValue(2, TRUE)),
           DataUpdate(ReceiptProcessing(3), REF_CONTRACT_ID, << 0, 5, 0, 0, 0, 1, 0, 0, 0 >>,
                      RefPoolValue(0, TRUE)),
           DataUpdate(ReceiptProcessing(3), REF_CONTRACT_ID, << 0, 5, 0, 0, 0, 0, 0, 0, 0, 0 >>,
                      RefPoolValue(0, TRUE)),
           DataUpdate(ReceiptProcessing(3), REF_CONTRACT_ID, << 0 >>, RefPoolValue(0, TRUE)),
           DataUpdate(ReceiptProcessing(3), AIDOLS_CONTRACT_ID, TokenKey(0, TokenA),
                      [layout |-> "aidols_pool", complete |-> FALSE, fields |-> "fields"]),
           DataUpdate(ReceiptProcessing(3), GRAFUN_CONTRACT_ID, TokenKey(115, TokenA),
                      [layout |-> "grafun_pool", complete |-> FALSE, fields |-> "fields"]),
           DataUpdate(ReceiptProcessing(3), AIDOLS_CONTRACT_ID, << 0, 2, 0, 0, 0, 65, 65 >>,
                      [layout |-> "aidols_pool", complete |-> TRUE, fields |-> "fields"]),
           DataUpdate(ReceiptProcessing(3), GRAFUN_CONTRACT_ID, << 115, 9, 0, 0, 0, 97 >>,
                      [layout |-> "grafun_pool", complete |-> TRUE, fields |-> "fields"]) }

BlockStateChanges == StateChanges \cup MoreStateChanges

\* the shards of a block, each with its state changes: one shard with up to two
\* state changes, or two shards with one each
BlockShards ==
    { << << >> >> } \cup { << << c >> >> : c \in BlockStateChanges }
    \cup { << << c, d >> >> : c \in BlockStateChanges, d \in BlockStateChanges }
    \cup { << << c >>, << d >> >> : c \in BlockStateChanges, d \in BlockStateChanges }

\* the state changes of the shards in the order process_block goes through them
RECURSIVE StateChangesOf(_)
StateChangesOf(shards) ==
    IF shards = << >> THEN << >> ELSE Head(shards) \o StateChangesOf(Tail(shards))

\* one block of any of these shards, then one receipt
NextStateChanges ==
    \/ ProcessBlock(1, { StateChangesOf(b) : b \in BlockShards }, { 0 })
    \/ OnReceipt(PipelineInputs, 1, { 0 })
    \/ ProcessBlockEnd

SpecStateChanges == Init /\ [][NextStateChanges]_vars

(***************************************************************************)
(* Properties.  The vocabulary they share.                                 *)
(***************************************************************************)
\* the handler calls of the last call of the driver
LastEvents == IF last.call = "none" THEN << >> ELSE last.events

\* those of them that are this operation
LastOf(op) == SelectSeq(LastEvents, LAMBDA e : e.op = op)

\* the last call of the driver offered a receipt
ReceiptOffered == last.call = "on_receipt"

\* ... a successful receipt addressed to the Ref contract of the active network
RefReceiptOffered ==
    /\ ReceiptOffered
    /\ last.receipt.status \in { "SuccessValue", "SuccessReceiptId" }
    /\ last.receipt.receiver_id = (IF is_testnet THEN TESTNET_REF_CONTRACT_ID ELSE REF_CONTRACT_ID)

\* the pool ids one action contributes to the intended hops
ActionPools(action) ==
    IF action.kind # "FunctionCall" THEN << >>
    ELSE IF action.method_name = "ft_on_transfer" THEN FtOnTransferPools(action.args)
    ELSE IF /\ action.method_name \in { "swap", "swap_by_output", "execute_actions" }
            /\ IsSome(ParseMethodSwap(action.args))
         THEN Unwrap(ParseMethodSwap(action.args))
    ELSE << >>

\* the intended hops of a receipt: the pool ids of its actions, in action order
RECURSIVE PoolsOfActions(_)
PoolsOfActions(actions) ==
    IF actions = << >> THEN << >> ELSE ActionPools(Head(actions)) \o PoolsOfActions(Tail(actions))

IntendedHops(receipt) == IF receipt.kind = "Action" THEN PoolsOfActions(receipt.actions) ELSE << >>

\* the observed hops of a receipt: its log lines that parse as swaps, in log order
RECURSIVE ObservedHops(_)
ObservedHops(logs) ==
    IF logs = << >> THEN << >>
    ELSE (IF ParseSwapLog(Head(logs).text).kind = "hop"
          THEN << ParseSwapLog(Head(logs).text).swap >> ELSE << >>)
         \o ObservedHops(Tail(logs))

\* the net change of token t over the legs of the hops, in unbounded integers
RECURSIVE NetDelta(_, _)
NetDelta(swaps, t) ==
    IF swaps = << >> THEN 0
    ELSE (IF Head(swaps).token_out = t THEN Head(swaps).amount_out ELSE 0)
         - (IF Head(swaps).token_in = t THEN Head(swaps).amount_in ELSE 0)
         + NetDelta(Tail(swaps), t)

SwapTokens(swaps) ==
    { swaps[i].token_in : i \in DOMAIN swaps } \cup { swaps[i].token_out : i \in DOMAIN swaps }

\* the receipt has a function call of this method
HasCall(receipt, method_name) ==
    \E i \in DOMAIN receipt.actions :
        receipt.actions[i].kind = "FunctionCall" /\ receipt.actions[i].method_name = method_name

\* the receipt has this log line
HasLine(receipt, text) == \E i \in DOMAIN receipt.logs : receipt.logs[i].text = text

\* the trader of the receipt is not the relayer, or both parents of the relayed
\* receipt are found
RelayResolved(receipt, transaction) ==
    IsSome(ResolveTrader(IF HasCall(receipt, "ft_on_transfer")
                         THEN FtOnTransferTrader(receipt.predecessor_id, receipt, transaction)
                         ELSE receipt.predecessor_id,
                         receipt, transaction))

(***************************************************************************)
(* C1: for a successful receipt addressed to the Ref contract whose        *)
(* intended hops and observed hops are both n >= 1 long, detect hands over *)
(* exactly n RawPoolSwap, the i-th with the pool id REF-<i-th intended     *)
(* pool id> and the tokens and amounts of the i-th observed hop.  Stated   *)
(* for the receipts whose trader resolves; detect returns early on the     *)
(* others (lines 203-221).                                                 *)
(***************************************************************************)
C1_EveryCorrelatedHopEmitted ==
    (/\ RefReceiptOffered
     /\ RelayResolved(last.receipt, last.transaction)
     /\ Len(IntendedHops(last.receipt)) = Len(ObservedHops(last.receipt.logs))
     /\ Len(ObservedHops(last.receipt.logs)) >= 1)
    => LET pools == IntendedHops(last.receipt)
           hops == ObservedHops(last.receipt.logs)
           raw == LastOf("on_raw_pool_swap")
       IN  /\ Len(raw) = Len(hops)
           /\ \A i \in DOMAIN raw :
                raw[i].swap = RawPoolSwap(create_ref_pool_id(pools[i]), hops[i].token_in,
                                          hops[i].token_out, hops[i].amount_in, hops[i].amount_out)

\* a swap and an add_liquidity call in one receipt whose only log line is the swap's:
\* one intended hop, one observed hop, detect returns without any event
C1_SwapLostToLiquidityScan ==
    /\ RefReceiptOffered
    /\ last.receipt.predecessor_id = "alice.near"
    /\ HasCall(last.receipt, "add_liquidity")
    /\ IntendedHops(last.receipt) = << 1 >>
    /\ last.receipt.logs = << SwapLine(SWAPPED, 1, TokenA, 2, TokenB) >>
    /\ last.result = "Ok"
    /\ last.events = << >>

(***************************************************************************)
(* C2: every BalanceChangeSwap handed to the handler has, for every token, *)
(* the sum of amount_out of its hops into the token minus the sum of       *)
(* amount_in of its hops out of it; a token whose sum is zero is absent,   *)
(* no entry is zero.                                                       *)
(***************************************************************************)
C2_BalanceChangesAreNetOfLegs ==
    \A i \in DOMAIN LastEvents :
        LastEvents[i].op = "on_balance_change_swap" =>
            LET m == LastEvents[i].balance_changes
                swaps == LastEvents[i].pool_swaps
            IN  \A t \in SwapTokens(swaps) \cup DOMAIN m :
                    IF NetDelta(swaps, t) = 0 THEN t \notin DOMAIN m
                    ELSE t \in DOMAIN m /\ m[t] = NetDelta(swaps, t)

\* a Veax swap of 1 aa for 2 aa: the entry of aa is 2, the net change is 1
C2_SameTokenLegOverwritten ==
    /\ ReceiptOffered
    /\ last.receipt.receiver_id = VEAX_CONTRACT_ID
    /\ Len(LastEvents) = 2
    /\ LastEvents[2].op = "on_balance_change_swap"
    /\ LastEvents[2].pool_swaps =
         << RawPoolSwap(create_veax_pool_id(<< TokenA, TokenA >>), TokenA, TokenA, 1, 2) >>
    /\ LastEvents[2].balance_changes = MapInsert(EmptyMap, TokenA, 2)

(***************************************************************************)
(* C3: when the intended hops and the observed hops of a Ref receipt       *)
(* differ in number, detect hands over no RawPoolSwap and no               *)
(* BalanceChangeSwap.                                                      *)
(***************************************************************************)
C3_MismatchEmitsNoSwap ==
    (/\ RefReceiptOffered
     /\ Len(IntendedHops(last.receipt)) # Len(ObservedHops(last.receipt.logs)))
    => /\ LastOf("on_raw_pool_swap") = << >>
       /\ LastOf("on_balance_change_swap") = << >>

\* two intended hops, one observed hop: detect returned and nothing was handed over
C3_TwoPoolsOneHop ==
    /\ RefReceiptOffered
    /\ IntendedHops(last.receipt) = << 1, 2 >>
    /\ Len(ObservedHops(last.receipt.logs)) = 1
    /\ last.result = "Ok"
    /\ last.events = << >>

(***************************************************************************)
(* C4: for a receipt whose execution outcome is not successful, on_receipt *)
(* calls none of the handler's event operations.                           *)
(***************************************************************************)
C4_UnsuccessfulReceiptEmitsNothing ==
    (ReceiptOffered /\ last.receipt.status \notin { "SuccessValue", "SuccessReceiptId" })
    => last.events = << >>

\* a failed receipt on the Ref contract of the active network with one intended and
\* one observed hop
C4_FailedSwapReceipt ==
    /\ ReceiptOffered
    /\ last.receipt.status = "Failure"
    /\ last.receipt.receiver_id = RefContractId(is_testnet)
    /\ IntendedHops(last.receipt) = << 1 >>
    /\ Len(ObservedHops(last.receipt.logs)) = 1
    /\ last.events = << >>

(***************************************************************************)
(* C5: a hop with an amount above 2^127 - 1 is left out of the delta map:  *)
(* every delta of a BalanceChangeSwap is the net change, in unbounded      *)
(* integers, over the hops whose two amounts fit a signed 128-bit integer, *)
(* so no delta is a wrapped amount or a wrapped sum.                       *)
(***************************************************************************)
FittingHops(swaps) ==
    SelectSeq(swaps, LAMBDA swap : swap.amount_in <= I128_MAX /\ swap.amount_out <= I128_MAX)

C5_NoWrappedDelta ==
    \A i \in DOMAIN LastEvents :
        LastEvents[i].op = "on_balance_change_swap" =>
            LET m == LastEvents[i].balance_changes
            IN  \A t \in DOMAIN m :
                    /\ m[t] = NetDelta(FittingHops(LastEvents[i].pool_swaps), t)
                    /\ m[t] \in I128_MIN..I128_MAX

\* a Ref swap of 2^127 aa for 1 bb in a build without overflow checks: the delta of
\* aa is the amount cast to a signed integer, the lowest one
C5_RefAmountWrapped ==
    /\ RefReceiptOffered
    /\ ~overflow_checks
    /\ Len(LastEvents) = 2
    /\ LastEvents[1].op = "on_raw_pool_swap"
    /\ LastEvents[1].swap.amount_in = I128_MAX + 1
    /\ LastEvents[2].op = "on_balance_change_swap"
    /\ LastEvents[2].balance_changes = MapInsert(MapInsert(EmptyMap, TokenA, I128_MIN), TokenB, 1)

(***************************************************************************)
(* C6: for a receipt whose receiver is none of the contract ids recognized *)
(* for the active network, on_receipt makes no handler event call.         *)
(***************************************************************************)
RecognizedContractIds(testnet) ==
    IF testnet THEN { TESTNET_REF_CONTRACT_ID }
    ELSE { REF_CONTRACT_ID, AIDOLS_CONTRACT_ID, GRAFUN_CONTRACT_ID, REFDCL_CONTRACT_ID,
           VEAX_CONTRACT_ID, INTEAR_CONTRACT_ID }

C7_ZeroNetTokensPruned ==
    (/\ RefReceiptOffered
     /\ last.result = "Ok"
     /\ RefDetect(last.receipt, last.transaction, last.block, is_testnet, overflow_checks).exit
          = "emitted")
    => LET hops == ObservedHops(last.receipt.logs)
           raw == LastOf("on_raw_pool_swap")
           balance == LastOf("on_balance_change_swap")
       IN  /\ Len(hops) >= 1
           /\ Len(raw) = Len(hops)
           /\ \A i \in DOMAIN raw :
                /\ raw[i].swap.token_in = hops[i].token_in
                /\ raw[i].swap.token_out = hops[i].token_out
           /\ (\A t \in SwapTokens(hops) : NetDelta(hops, t) = 0) => balance = << >>
           /\ \A i \in DOMAIN balance :
                \A t \in SwapTokens(hops) :
                    NetDelta(hops, t) = 0 => t \notin DOMAIN balance[i].balance_changes

\* the circular chain aa -> bb -> cc -> aa: three RawPoolSwap, no BalanceChangeSwap
C7_CircularChain ==
    /\ RefReceiptOffered
    /\ IntendedHops(last.receipt) = << 1, 2, 3 >>
    /\ Len(LastEvents) = 3
    /\ \A i \in 1..3 : LastEvents[i].op = "on_raw_pool_swap"
    /\ LastEvents[1].swap.token_in = TokenA
    /\ LastEvents[2].swap.token_in = TokenB
    /\ LastEvents[3].swap.token_in = TokenC
    /\ LastEvents[3].swap.token_out = TokenA
    /\ LastEvents[3].swap.amount_out = LastEvents[1].swap.amount_in

(***************************************************************************)
(* C8: whatever the receipt, every adapter called by on_receipt returns,   *)
(* on_receipt returns Ok and the run goes on.                              *)
(***************************************************************************)
C8_OnReceiptAlwaysReturns ==
    /\ pc # "stopped"
    /\ ReceiptOffered =>
         /\ last.result = "Ok"
         /\ last.returned = Len(AdapterResults(last.receipt, last.transaction, last.block,
                                               is_testnet, overflow_checks))

\* the log line "Swapped x for y" on a Ref receipt: detect panics at the unwrap of
\* split_once(' '), no adapter returns and the run has stopped
C8_SwapLineWithoutSpacePanics ==
    /\ RefReceiptOffered
    /\ HasLine(last.receipt, SWAPPED \o <<"x">> \o FOR \o <<"y">>)
    /\ RelayResolved(last.receipt, last.transaction)
    /\ last.result = "panic"
    /\ last.returned = 0
    /\ pc = "stopped"

(***************************************************************************)
(* The handler calls of the whole run.                                     *)
(***************************************************************************)
\* the positions of the flushes of height h, and of the events of height h
FlushesOf(h) == { i \in DOMAIN calls : calls[i].op = "flush_events" /\ calls[i].block_height = h }

EventsOf(h) == { i \in DOMAIN calls : calls[i].op # "flush_events" /\ calls[i].block_height = h }

\* the driver has ended block h
BlockEnded(h) == h < height \/ (h = height /\ pc = "idle")

(***************************************************************************)
(* C9: flush_events(h) is called exactly once for every block h the driver *)
(* has ended and not before, and every event of block h is handed to the   *)
(* handler before it.                                                      *)
(***************************************************************************)
C9_FlushOncePerBlockAfterItsEvents ==
    \A h \in 1..height :
        /\ Cardinality(FlushesOf(h)) = (IF BlockEnded(h) THEN 1 ELSE 0)
        /\ \A f \in FlushesOf(h) : \A e \in EventsOf(h) : e < f

\* two blocks ended, each with a pool change and the events of two receipts before
\* its one flush
C9_TwoBlocksFlushed ==
    /\ height = 2
    /\ pc = "idle"
    /\ \A h \in 1..2 :
         /\ Cardinality(FlushesOf(h)) = 1
         /\ Cardinality(EventsOf(h)) >= 5
         /\ \E e \in EventsOf(h) : calls[e].op = "on_pool_change"
    /\ calls[Len(calls)] = [op |-> "flush_events", block_height |-> 2]

(***************************************************************************)
(* C10: the handler calls come block by block in increasing height: no     *)
(* call of a block comes after a call of a later block, nothing of block h *)
(* or of an earlier block comes after flush_events(h), and every call of a *)
(* block comes after the flush of every block before it.                   *)
(***************************************************************************)
C10_CallsInBlockOrder ==
    \A j \in DOMAIN calls :
        /\ \A i \in 1..(j - 1) :
             /\ calls[i].block_height <= calls[j].block_height
             /\ calls[i].op = "flush_events" => calls[i].block_height < calls[j].block_height
        /\ \A h \in 1..(calls[j].block_height - 1) : \E i \in FlushesOf(h) : i < j

\* events of block 1, its flush, then events of block 2
C10_SecondBlockAfterFirstFlush ==
    \E i, f, j \in DOMAIN calls :
        /\ i < f /\ f < j
        /\ calls[i] = [op |-> "on_balance_change_swap", block_height |-> 1]
        /\ calls[f] = [op |-> "flush_events", block_height |-> 1]
        /\ calls[j] = [op |-> "on_raw_pool_swap", block_height |-> 2]

(***************************************************************************)
(* C11.  The sanity ceiling on Ref pool ids.                               *)
(***************************************************************************)
\* a data update of the Ref contract, caused by a receipt, whose key is a pool key:
\* one prefix byte (0x00 or b"p") and eight bytes of little-endian pool id
IsRefPoolMutation(change) ==
    /\ change.value.type = "DataUpdate"
    /\ change.value.account_id = (IF is_testnet THEN TESTNET_REF_CONTRACT_ID ELSE REF_CONTRACT_ID)
    /\ change.cause.type = "ReceiptProcessing"
    /\ Len(change.value.key) = 9
    /\ change.value.key[1] \in { 0, 112 }

\* the pool id such a key decodes to
PoolIdOfKey(key) == key[2] + 256 * key[3] + 65536 * key[4]

\* the PoolChangeEvents of the last call for this Ref pool
PoolChangesOf(pool_id) ==
    SelectSeq(LastEvents, LAMBDA e : e.op = "on_pool_change" /\ e.pool_id = create_ref_pool_id(pool_id))

\* the warnings of the last call that name this pool id
CeilingWarningsOf(pool_id) ==
    SelectSeq(last.warnings, LAMBDA w : w.pool_id = pool_id)

\* C11: after process_block, every Ref pool mutation whose pool id is above the
\* ceiling has no PoolChangeEvent and has a warning naming its pool id, whether or
\* not its value decodes as a pool; a decodable one whose pool id equals the
\* ceiling has its PoolChangeEvent.
C11_AboveCeilingLoggedAndNotEmitted ==
    last.call = "process_block" =>
        \A i \in DOMAIN last.changes :
            IsRefPoolMutation(last.changes[i]) =>
                /\ PoolIdOfKey(last.changes[i].value.key) > POOL_ID_CEILING =>
                       /\ PoolChangesOf(PoolIdOfKey(last.changes[i].value.key)) = << >>
                       /\ CeilingWarningsOf(PoolIdOfKey(last.changes[i].value.key)) # << >>
                /\ ( /\ PoolIdOfKey(last.changes[i].value.key) = POOL_ID_CEILING
                     /\ last.changes[i].value.value.layout = "ref_pool"
                     /\ last.changes[i].value.value.tag \in 0..3
                     /\ last.changes[i].value.value.complete ) =>
                       Len(PoolChangesOf(POOL_ID_CEILING)) = 1

\* a Ref pool mutation above the ceiling whose value is not a pool (variant tag 4)
\* went through process_block without any warning
C11_UndecodableAboveCeilingNotLogged ==
    /\ last.call = "process_block"
    /\ \E i \in DOMAIN last.changes :
           /\ IsRefPoolMutation(last.changes[i])
           /\ PoolIdOfKey(last.changes[i].value.key) > POOL_ID_CEILING
           /\ last.changes[i].value.value.tag = 4
    /\ last.events = << >>
    /\ last.warnings = << >>

(***************************************************************************)
(* C12.  The test-network selector.                                        *)
(***************************************************************************)
\* the pool ids a handler call names
PoolIdsOf(e) ==
    CASE e.op = "on_raw_pool_swap" -> { e.swap.pool }
      [] e.op = "on_balance_change_swap" -> { e.pool_swaps[i].pool : i \in DOMAIN e.pool_swaps }
      [] e.op = "on_liquidity_pool" -> { e.pool_id }
      [] e.op = "on_pool_change" -> { e.pool_id }
      [] OTHER -> {}

\* the protocol prefix of a pool id: the characters before its first '-'
ProtocolOf(pool_id) ==
    SubSeq(pool_id, 1, (CHOOSE i \in DOMAIN pool_id :
                            pool_id[i] = "-" /\ \A j \in 1..(i - 1) : pool_id[j] # "-") - 1)

\* C12: with the test-network selector set, every event handed to the handler by
\* on_receipt or by process_block belongs to Ref, the one protocol with a
\* test-network deployment: none belongs to Aidols, GraFun, RefDcl, Veax or
\* Intear Plach.
C12_TestnetHandsOnlyRefEvents ==
    (is_testnet /\ last.call \in { "on_receipt", "process_block" }) =>
        \A i \in DOMAIN last.events :
            \A id \in PoolIdsOf(last.events[i]) : ProtocolOf(id) = <<"R", "E", "F">>

\* on the test network, process_block handed the handler the pool of an Aidols token
C12_AidolsPoolChangeOnTestnet ==
    /\ is_testnet
    /\ last.call = "process_block"
    /\ \E i \in DOMAIN last.events :
           /\ last.events[i].op = "on_pool_change"
           /\ last.events[i].pool.type = "Aidols"
           /\ last.changes[1].value.account_id = AIDOLS_CONTRACT_ID

(***************************************************************************)
(* C13.  Detection keeps no state across calls.                            *)
(***************************************************************************)
\* the last call is an on_receipt call on the input of the remembered one, in the
\* same block, and the sink failed in neither
SameInputAgain ==
    /\ last.call = "on_receipt"
    /\ remembered.call = "on_receipt"
    /\ last.failed = 0
    /\ remembered.failed = 0
    /\ last.receipt = remembered.receipt
    /\ last.transaction = remembered.transaction
    /\ last.block = remembered.block

C14_PoolIdsOfProtocolsDiffer ==
    ( /\ last.call = "create_pool_id"
      /\ remembered.call = "create_pool_id"
      /\ last.protocol # remembered.protocol ) =>
        last.pool_id # remembered.pool_id

\* the pool ids of Ref pool 1 and of the Ref DCL pool named "1" were both made
C14_RefAndRefDclPoolOne ==
    /\ last.call = "create_pool_id"
    /\ remembered.call = "create_pool_id"
    /\ remembered.protocol = "REF"
    /\ remembered.pool_id = <<"R", "E", "F", "-", "1">>
    /\ last.protocol = "REFDCL"
    /\ last.pool_id = <<"R", "E", "F", "D", "C", "L", "-", "1">>

(***************************************************************************)
(* C15.  The referrer of a BalanceChangeSwap.                              *)
(***************************************************************************)
\* the referrer a handler call was given: none when the call has no such argument
ReferrerOf(e) == IF "referrer" \in DOMAIN e THEN e.referrer ELSE None

\* the referrer a Ref log line names: the account after ", Referral "
ReferrerInLine(text) ==
    IF Occurrences(text, <<",", " ", "R", "e", "f", "e", "r", "r", "a", "l", " ">>) = {} THEN None
    ELSE Some(SubSeq(text, Min(Occurrences(text, <<",", " ", "R", "e", "f", "e", "r", "r", "a", "l", " ">>)) + 11,
                     Min({ i \in DOMAIN text :
                             i > Min(Occurrences(text, <<",", " ", "R", "e", "f", "e", "r", "r", "a", "l", " ">>)) + 10 /\ text[i] = " " }) - 1))

\* the referrers named in the logs of a receipt
ReferrersInLogs(logs) ==
    { ReferrerInLine(logs[i].text) : i \in DOMAIN logs } \ { None }

\* the referrers carried by the structured swap events of a receipt
ReferrersInEvents(logs) ==
    { IF logs[i].event[1].data.shape = "aidols_swaps"
      THEN logs[i].event[1].data.swaps[1].referral_id
      ELSE logs[i].event[1].data.referrer :
        i \in { j \in DOMAIN logs :
                  /\ IsSome(logs[j].event)
                  /\ logs[j].event[1].data.shape \in { "aidols_swaps", "dex_event" } } }

\* C15: the BalanceChangeSwap of a Ref receipt is handed over with the referrer its
\* logs name, and with none when they name none; the BalanceChangeSwap of an Aidols
\* or Intear receipt is handed over with the referrer its swap event carries.
C15_ReferrerHandedOver ==
    (ReceiptOffered /\ last.result = "Ok") =>
        \A i \in DOMAIN last.events :
            last.events[i].op = "on_balance_change_swap" =>
                /\ last.receipt.receiver_id \in { REF_CONTRACT_ID, TESTNET_REF_CONTRACT_ID } =>
                       IF ReferrersInLogs(last.receipt.logs) = {}
                       THEN ReferrerOf(last.events[i]) = None
                       ELSE ReferrerOf(last.events[i]) \in ReferrersInLogs(last.receipt.logs)
                /\ last.receipt.receiver_id \in { AIDOLS_CONTRACT_ID, INTEAR_CONTRACT_ID } =>
                       ReferrerOf(last.events[i]) \in ReferrersInEvents(last.receipt.logs)

\* a Ref swap whose logs name the referrer ref.near was handed over without referrer
C15_RefReferrerDropped ==
    /\ RefReceiptOffered
    /\ last.result = "Ok"
    /\ ReferrersInLogs(last.receipt.logs) = { Some(<<"r", "e", "f", ".", "n", "e", "a", "r">>) }
    /\ Len(LastOf("on_balance_change_swap")) = 1
    /\ ReferrerOf(LastOf("on_balance_change_swap")[1]) = None

(***************************************************************************)
(* C16.  Liquidity events of the Ref contract.                             *)
(***************************************************************************)
\* the "<amount> <token>" items of a liquidity line, << >> when the line does not
\* have the form of one
LiquidityLineItems(text, remove) ==
    IF remove
    THEN IF /\ IsSome(SplitOnce(text, LIQUIDITY_REMOVED))
            /\ IsSome(ParseBalance(SplitOnce(text, LIQUIDITY_REMOVED)[1][1]))
            /\ EndsWith(SplitOnce(text, LIQUIDITY_REMOVED)[1][2], LIST_END)
         THEN Split(StripSuffix(SplitOnce(text, LIQUIDITY_REMOVED)[1][2], LIST_END)[1], AMOUNT_SEP)
         ELSE << >>
    ELSE IF /\ StartsWith(text, LIQUIDITY_ADDED)
            /\ EndsWith(text, SHARES)
            /\ Len(text) >= Len(LIQUIDITY_ADDED) + Len(SHARES)
            /\ IsSome(SplitOnce(SubSeq(text, Len(LIQUIDITY_ADDED) + 1, Len(text) - Len(SHARES)), MINTED))
            /\ IsSome(ParseBalance(SplitOnce(SubSeq(text, Len(LIQUIDITY_ADDED) + 1,
                                                    Len(text) - Len(SHARES)), MINTED)[1][2]))
         THEN Split(SplitOnce(SubSeq(text, Len(LIQUIDITY_ADDED) + 1, Len(text) - Len(SHARES)),
                              MINTED)[1][1], AMOUNT_SEP)
         ELSE << >>

\* an item names an amount of the unsigned 128-bit range and a token
ItemWellFormed(item) ==
    /\ IsSome(SplitOnce(item, <<" ">>))
    /\ IsSome(ParseBalance(SplitOnce(item, <<" ">>)[1][1]))
    /\ IsSome(ParseAccountId(SplitOnce(item, <<" ">>)[1][2]))

LoggedAmount(item) == ParseBalance(SplitOnce(item, <<" ">>)[1][1])[1]

LoggedToken(item) == ParseAccountId(SplitOnce(item, <<" ">>)[1][2])[1]

WellFormedLiquidityLine(text, remove) ==
    /\ LiquidityLineItems(text, remove) # << >>
    /\ \A j \in DOMAIN LiquidityLineItems(text, remove) :
           ItemWellFormed(LiquidityLineItems(text, remove)[j])

\* the last call offered a successful Ref receipt whose one action is this
\* liquidity call and whose log lines are all well-formed liquidity lines
LiquidityReceiptOffered(method_name, remove) ==
    /\ RefReceiptOffered
    /\ last.receipt.kind = "Action"
    /\ Len(last.receipt.actions) = 1
    /\ last.receipt.actions[1].kind = "FunctionCall"
    /\ last.receipt.actions[1].method_name = method_name
    /\ last.receipt.actions[1].args.shape = method_name
    /\ last.receipt.logs # << >>
    /\ \A i \in DOMAIN last.receipt.logs : WellFormedLiquidityLine(last.receipt.logs[i].text, remove)

\* the liquidity events are one per line, each with the pool of the call and, for
\* every item of its line, the logged amount with this sign
LiquidityEventsMatch(remove) ==
    /\ Len(LastOf("on_liquidity_pool")) = Len(last.receipt.logs)
    /\ \A i \in DOMAIN last.receipt.logs :
           /\ LastOf("on_liquidity_pool")[i].pool_id
                  = <<"R", "E", "F", "-">> \o Dec(last.receipt.actions[1].args.pool_id)
           /\ \A j \in DOMAIN LiquidityLineItems(last.receipt.logs[i].text, remove) :
                  /\ LoggedToken(LiquidityLineItems(last.receipt.logs[i].text, remove)[j])
                         \in DOMAIN LastOf("on_liquidity_pool")[i].tokens
                  /\ LastOf("on_liquidity_pool")[i].tokens[
                         LoggedToken(LiquidityLineItems(last.receipt.logs[i].text, remove)[j])]
                       = IF remove
                         THEN 0 - LoggedAmount(LiquidityLineItems(last.receipt.logs[i].text, remove)[j])
                         ELSE LoggedAmount(LiquidityLineItems(last.receipt.logs[i].text, remove)[j])

\* C16: a successful add_liquidity receipt of the Ref contract with well-formed
\* "Liquidity added" lines gives one liquidity event per line, with the pool id
\* REF-<pool_id of the call> and every token delta equal to the logged amount; a
\* remove_liquidity receipt gives the same with every delta equal to minus the
\* logged amount.  The logged amounts are any of the unsigned 128-bit range.
C16_LiquidityDeltasAreLoggedAmounts ==
    /\ LiquidityReceiptOffered("add_liquidity", FALSE) => LiquidityEventsMatch(FALSE)
    /\ LiquidityReceiptOffered("remove_liquidity", TRUE) => LiquidityEventsMatch(TRUE)

\* liquidity added with an amount of 2^127 was handed over as a negative delta
C16_AddedAmountHandedOverNegative ==
    /\ LiquidityReceiptOffered("add_liquidity", FALSE)
    /\ Len(LastOf("on_liquidity_pool")) = 1
    /\ LoggedAmount(LiquidityLineItems(last.receipt.logs[1].text, FALSE)[1]) = I128_MAX + 1
    /\ LastOf("on_liquidity_pool")[1].tokens[TokenA] < 0

(***************************************************************************)
(* C17.  The RawPoolSwap / BalanceChangeSwap pair of the log-native        *)
(* adapters.                                                               *)
(***************************************************************************)
\* the swaps a log line reports as a structured event of the protocol of this
\* contract
SwapEventsOfLine(log, receiver_id) ==
    IF ~IsSome(log.event) THEN 0
    ELSE CASE receiver_id = VEAX_CONTRACT_ID ->
                IF /\ log.event[1].data.shape = "veax_swap"
                   /\ log.event[1].standard = "veax"
                   /\ log.event[1].event = "swap"
                THEN 1 ELSE 0
           [] receiver_id = REFDCL_CONTRACT_ID ->
                IF /\ log.event[1].data.shape = "refdcl_swaps"
                   /\ log.event[1].standard = "dcl.ref"
                   /\ log.event[1].event = "swap"
                THEN Len(log.event[1].data.swaps) ELSE 0
           [] receiver_id = AIDOLS_CONTRACT_ID ->
                IF log.event[1].data.shape = "aidols_swaps" /\ log.event[1].event = "token_swap"
                THEN Len(log.event[1].data.swaps) ELSE 0
           [] receiver_id = GRAFUN_CONTRACT_ID ->
                IF log.event[1].data.shape = "grafun_swaps" /\ log.event[1].event = "token_swap"
                THEN Len(log.event[1].data.swaps) ELSE 0
           [] receiver_id = INTEAR_CONTRACT_ID ->
                IF /\ log.event[1].data.shape = "dex_event"
                   /\ log.event[1].standard = "inteardex"
                   /\ log.event[1].event = "dex_event"
                   /\ log.event[1].data.dex_id = PLACH_DEX_ID
                   /\ log.event[1].data.event.event = "swap"
                   /\ log.event[1].data.event.data.shape = "plach_swap"
                   /\ log.event[1].data.user # None
                   /\ log.event[1].data.event.data.request.asset_in.kind \in { "Nep141", "Near" }
                   /\ log.event[1].data.event.data.request.asset_out.kind \in { "Nep141", "Near" }
                THEN 1 ELSE 0
           [] OTHER -> 0

RECURSIVE SwapEventsCarried(_, _)
SwapEventsCarried(logs, receiver_id) ==
    IF logs = << >> THEN 0
    ELSE SwapEventsOfLine(Head(logs), receiver_id) + SwapEventsCarried(Tail(logs), receiver_id)

\* the last call offered a successful receipt of a log-native protocol of the main
\* network
NativeReceiptOffered ==
    /\ ReceiptOffered
    /\ ~is_testnet
    /\ last.receipt.status \in { "SuccessValue", "SuccessReceiptId" }
    /\ last.receipt.receiver_id \in { AIDOLS_CONTRACT_ID, GRAFUN_CONTRACT_ID, REFDCL_CONTRACT_ID,
                                       VEAX_CONTRACT_ID, INTEAR_CONTRACT_ID }

\* C17: for a successful receipt of a log-native protocol there is one RawPoolSwap
\* per structured swap event of its logs, every RawPoolSwap is immediately followed
\* by a BalanceChangeSwap with the same context whose pool_swaps is that one hop,
\* and every BalanceChangeSwap immediately follows a RawPoolSwap.
C17_RawSwapPairedWithBalanceChange ==
    NativeReceiptOffered =>
        /\ Len(LastOf("on_raw_pool_swap"))
              = SwapEventsCarried(last.receipt.logs, last.receipt.receiver_id)
        /\ \A i \in DOMAIN last.events :
               last.events[i].op = "on_raw_pool_swap" =>
                   /\ i < Len(last.events)
                   /\ last.events[i + 1].op = "on_balance_change_swap"
                   /\ last.events[i + 1].context = last.events[i].context
                   /\ last.events[i + 1].pool_swaps = << last.events[i].swap >>
        /\ \A i \in DOMAIN last.events :
               last.events[i].op = "on_balance_change_swap" =>
                   (i > 1 /\ last.events[i - 1].op = "on_raw_pool_swap")

\* the Intear adapter returned after handing over the RawPoolSwap of a swap of
\* 2^127 units and no BalanceChangeSwap
C17_PlachRawSwapAlone ==
    /\ NativeReceiptOffered
    /\ last.receipt.receiver_id = INTEAR_CONTRACT_ID
    /\ last.result = "Ok"
    /\ Len(last.events) = 1
    /\ last.events[1].op = "on_raw_pool_swap"
    /\ last.events[1].swap.amount_in = I128_MAX + 1

(***************************************************************************)
(* C18.  A publish that fails.                                             *)
(***************************************************************************)
\* the handler's event operations called so far
EventCalls == SelectSeq(calls, LAMBDA c : c.op # "flush_events")

\* C18: when the publish of a handler event operation has failed, the run is
\* stopped; the call that failed is the last one made to the handler; the sink
\* holds exactly the events of the calls before it, once each and in order, so the
\* failed event was neither retried nor skipped over; and the block in progress
\* has not been flushed.
C18_FailedPublishStopsTheRun ==
    (last.call # "none" /\ last.failed > 0) =>
        /\ pc = "stopped"
        /\ last.result = "panic"
        /\ Len(last.events) = last.failed
        /\ calls # << >>
        /\ calls[Len(calls)] = Ops(last.events)[last.failed]
        /\ EventCalls = sink \o << calls[Len(calls)] >>
        /\ FlushesOf(height) = {}

\* in the second block, the publish of the BalanceChangeSwap of a receipt failed
\* after its RawPoolSwap had been published
C18_BalanceChangePublishFailed ==
    /\ last.call = "on_receipt"
    /\ last.failed = 2
    /\ last.events[2].op = "on_balance_change_swap"
    /\ height = 2
    /\ pc = "stopped"
    /\ sink # << >>
    /\ sink[Len(sink)].op = "on_raw_pool_swap"
    /\ FlushesOf(1) # {}

(***************************************************************************)
(* C19, C20.  The trader of a Ref swap.                                    *)
(***************************************************************************)
\* the receipts of the transaction that spawned the receipt with this id
Parents(transaction, receipt_id) ==
    { transaction.receipts[i][1] :
        i \in { j \in DOMAIN transaction.receipts :
                  /\ transaction.receipts[j] # None
                  /\ receipt_id \in transaction.receipts[j][1].receipt_ids } }

\* the predecessors of the receipts two levels up
GrandparentCallers(transaction, receipt_id) ==
    { g.predecessor_id :
        g \in UNION { Parents(transaction, p.receipt_id) : p \in Parents(transaction, receipt_id) } }

\* the trader before relay resolution: the caller of the parent for the
\* ft_on_transfer callback when the parent is there, the predecessor otherwise
TraderBeforeRelay(receipt, transaction) ==
    IF HasCall(receipt, "ft_on_transfer") /\ Parents(transaction, receipt.receipt_id) # {}
    THEN (CHOOSE p \in Parents(transaction, receipt.receipt_id) : TRUE).predecessor_id
    ELSE receipt.predecessor_id

\* the handler calls of the last call that are swap events
LastSwapEvents ==
    SelectSeq(LastEvents, LAMBDA e : e.op \in { "on_raw_pool_swap", "on_balance_change_swap" })

\* C19: for a Ref receipt whose trader is the relayer ref.hot.tg, every swap event
\* has as trader the predecessor of the parent of the parent of the receipt; when
\* the parent or its parent is not in the transaction, there is no swap event.
C19_RelayedTraderIsTwoLevelsUp ==
    ( /\ RefReceiptOffered
      /\ last.receipt.kind = "Action"
      /\ TraderBeforeRelay(last.receipt, last.transaction) = HOT_RELAYER ) =>
        IF GrandparentCallers(last.transaction, last.receipt.receipt_id) = {}
        THEN LastSwapEvents = << >>
        ELSE \A i \in DOMAIN LastSwapEvents :
                 LastSwapEvents[i].context.trader
                     \in GrandparentCallers(last.transaction, last.receipt.receipt_id)

\* a swap relayed by ref.hot.tg was handed over with the trader bob.near, the caller
\* two receipts up
C19_RelayedSwapOfBob ==
    /\ RefReceiptOffered
    /\ last.receipt.predecessor_id = HOT_RELAYER
    /\ GrandparentCallers(last.transaction, last.receipt.receipt_id) = { "bob.near" }
    /\ Len(LastSwapEvents) = 2
    /\ LastSwapEvents[1].context.trader = "bob.near"
    /\ LastSwapEvents[2].context.trader = "bob.near"

\* C20: for a Ref receipt with the ft_on_transfer callback (not relayed by
\* ref.hot.tg), the trader of every event is the predecessor of the receipt of the
\* transaction that spawned this receipt, and is not the predecessor of this
\* receipt, also when the transaction holds no such receipt.
C20_CallbackTraderIsParentCaller ==
    ( /\ RefReceiptOffered
      /\ last.receipt.kind = "Action"
      /\ HasCall(last.receipt, "ft_on_transfer")
      /\ TraderBeforeRelay(last.receipt, last.transaction) # HOT_RELAYER ) =>
        \A i \in DOMAIN last.events :
            /\ last.events[i].context.trader # last.receipt.predecessor_id
            /\ last.events[i].context.trader
                   \in { p.predecessor_id : p \in Parents(last.transaction, last.receipt.receipt_id) }

\* the swap of an ft_on_transfer callback whose transaction holds no parent receipt
\* was handed over with the immediate caller as trader
C20_CallbackWithoutParent ==
    /\ RefReceiptOffered
    /\ HasCall(last.receipt, "ft_on_transfer")
    /\ last.receipt.predecessor_id = "token.near"
    /\ last.transaction.receipts = << >>
    /\ Len(LastSwapEvents) > 0
    /\ LastSwapEvents[1].context.trader = "token.near"

(***************************************************************************)
(* The swap grammar of the Ref contract's logs, as the specification words *)
(* it: "Swapped " or "Swap_by_output ", then "<amount> <token>", " for ",  *)
(* "<amount> <token>", and possibly a comma and more text.                 *)
(***************************************************************************)
\* a leg "<amount> <token>" with a u128 amount and an account id
SwapLegMatches(leg) ==
    /\ IsSome(SplitOnce(leg, <<" ">>))
    /\ IsSome(ParseBalance(Unwrap(SplitOnce(leg, <<" ">>))[1]))
    /\ IsSome(ParseAccountId(Unwrap(SplitOnce(leg, <<" ">>))[2]))

\* the two legs of the text after the prefix
SwapBodyMatches(body) ==
    /\ IsSome(SplitOnce(body, FOR))
    /\ SwapLegMatches(Unwrap(SplitOnce(body, FOR))[1])
    /\ SwapLegMatches(Split(Unwrap(SplitOnce(body, FOR))[2], <<",">>)[1])

MatchesSwapGrammar(text) ==
    \/ IsSome(StripPrefix(text, SWAPPED)) /\ SwapBodyMatches(Unwrap(StripPrefix(text, SWAPPED)))
    \/ /\ IsSome(StripPrefix(text, SWAP_BY_OUTPUT))
       /\ SwapBodyMatches(Unwrap(StripPrefix(text, SWAP_BY_OUTPUT)))

\* the receipt without its log lines that do not match the swap grammar
WithoutMalformedSwapLines(receipt) ==
    [receipt EXCEPT !.logs = SelectSeq(receipt.logs, LAMBDA l : MatchesSwapGrammar(l.text))]

\* the last call offered a successful receipt to the Ref contract that calls neither
\* add_liquidity nor remove_liquidity and holds a log line outside the swap grammar
MalformedSwapLineOffered ==
    /\ RefReceiptOffered
    /\ ~HasCall(last.receipt, "add_liquidity")
    /\ ~HasCall(last.receipt, "remove_liquidity")
    /\ \E i \in DOMAIN last.receipt.logs : ~MatchesSwapGrammar(last.receipt.logs[i].text)

(***************************************************************************)
(* C21: in the outcome extraction of the Ref adapter a log line that does  *)
(* not match the swap grammar adds no observed hop, does not stop the run  *)
(* and does not keep the lines after it from being parsed: the receipt     *)
(* gives the handler calls, and the result, of the same receipt without    *)
(* its non-matching lines.                                                 *)
(***************************************************************************)
C21_MalformedSwapLinesIgnored ==
    MalformedSwapLineOffered
    => LET clean == on_receipt(WithoutMalformedSwapLines(last.receipt), last.transaction,
                               last.block, is_testnet, overflow_checks)
       IN  /\ last.events = clean.events
           /\ last.result = clean.result

\* "Swapped x for y" before "Swapped 1 aa for 2 bb", one swap action on pool 1:
\* detect panics at the first line, the second is never read, nothing is handed over
C21_LineAfterMalformedLegNotParsed ==
    /\ MalformedSwapLineOffered
    /\ last.receipt.predecessor_id = "alice.near"
    /\ IntendedHops(last.receipt) = << 1 >>
    /\ last.receipt.logs = << PlainLog(SWAPPED \o <<"x">> \o FOR \o <<"y">>),
                              SwapLine(SWAPPED, 1, TokenA, 2, TokenB) >>
    /\ last.events = << >>
    /\ last.result = "panic"

(***************************************************************************)
(* C22.  Liquidity receipts whose logs hold lines outside the liquidity    *)
(* grammar.                                                                *)
(***************************************************************************)
\* the action is a liquidity call whose arguments parse
IsLiquidityCall(action) ==
    /\ action.kind = "FunctionCall"
    /\ action.method_name \in { "add_liquidity", "remove_liquidity" }
    /\ action.args.shape = action.method_name

\* the liquidity events the lines of the logs call for, over the liquidity calls of
\* the actions: one per call and well-formed line of the call's kind
RECURSIVE LiquidityEventsCalledFor(_, _)
LiquidityEventsCalledFor(actions, logs) ==
    IF actions = << >> THEN 0
    ELSE (IF IsLiquidityCall(Head(actions))
          THEN Len(SelectSeq(logs, LAMBDA l :
                       WellFormedLiquidityLine(l.text, Head(actions).method_name = "remove_liquidity")))
          ELSE 0)
         + LiquidityEventsCalledFor(Tail(actions), logs)

\* the receipt without its liquidity calls
WithoutLiquidityCalls(receipt) ==
    [receipt EXCEPT !.actions = SelectSeq(receipt.actions, LAMBDA a : ~IsLiquidityCall(a))]

\* the swap events among handler calls
SwapEventsAmong(events) ==
    SelectSeq(events, LAMBDA e : e.op \in { "on_raw_pool_swap", "on_balance_change_swap" })

\* the last call offered a successful receipt to the Ref contract with a liquidity
\* call and a log line that is no liquidity line of that call's kind
MalformedLiquidityLineOffered ==
    /\ RefReceiptOffered
    /\ last.receipt.kind = "Action"
    /\ \E i \in DOMAIN last.receipt.actions, j \in DOMAIN last.receipt.logs :
           /\ IsLiquidityCall(last.receipt.actions[i])
           /\ ~WellFormedLiquidityLine(last.receipt.logs[j].text,
                                       last.receipt.actions[i].method_name = "remove_liquidity")

\* C22: in an add_liquidity or remove_liquidity receipt of the Ref contract a log
\* line that does not match the liquidity grammar cancels the liquidity event of
\* that line only: every liquidity call still gives one liquidity event for each
\* well-formed line of its kind, before or after the line, and the swap events of
\* the receipt are those of the same receipt without its liquidity calls.
C22_MalformedLiquidityLineCancelsOnlyItself ==
    MalformedLiquidityLineOffered
    => /\ Len(LastOf("on_liquidity_pool"))
            = LiquidityEventsCalledFor(last.receipt.actions, last.receipt.logs)
       /\ SwapEventsAmong(last.events)
            = SwapEventsAmong(on_receipt(WithoutLiquidityCalls(last.receipt), last.transaction,
                                         last.block, is_testnet, overflow_checks).events)

\* add_liquidity and swap on pool 1, logs "Swapped 1 aa for 2 bb" then a well-formed
\* "Liquidity added" line: detect returns at the first line, and neither the
\* liquidity event of the second line nor the swap is handed over
C22_LiquidityAndSwapLostToSwapLine ==
    /\ MalformedLiquidityLineOffered
    /\ HasCall(last.receipt, "add_liquidity")
    /\ IntendedHops(last.receipt) = << 1 >>
    /\ last.receipt.logs = << SwapLine(SWAPPED, 1, TokenA, 2, TokenB), LiquidityAddedLine >>
    /\ last.events = << >>
    /\ last.result = "Ok"

(***************************************************************************)
(* C23.  The pool keys of the Ref contract under both prefixes.            *)
(***************************************************************************)
\* a data update of the Ref contract of the active network
IsRefUpdate(change) ==
    /\ change.value.type = "DataUpdate"
    /\ change.value.account_id = (IF is_testnet THEN TESTNET_REF_CONTRACT_ID ELSE REF_CONTRACT_ID)

\* one prefix byte, 0x00 or b"p", followed by exactly 8 bytes
IsRefPoolKey(key) == Len(key) = 9 /\ key[1] \in { 0, 112 }

\* a receipt-caused data update of the Ref contract whose value decodes as a pool
\* and whose key is a pool key
DecodedRefPoolUpdate(change) ==
    /\ IsRefUpdate(change)
    /\ change.cause.type = "ReceiptProcessing"
    /\ IsSome(DeserializeRefPool(change.value.value))
    /\ IsRefPoolKey(change.value.key)

\* the little-endian u64 of the 8 bytes is at most the ceiling
WithinCeiling(key) == (\A i \in 5..9 : key[i] = 0) /\ PoolIdOfKey(key) <= POOL_ID_CEILING

\* the PoolChangeEvents of the last call that name a Ref pool
RefPoolChanges ==
    SelectSeq(LastEvents, LAMBDA e : e.op = "on_pool_change" /\ ProtocolOf(e.pool_id) = <<"R", "E", "F">>)

\* the events are one for each of these state changes, in their order, each with
\* the pool id REF-<index of the key>, and equal for two of them that differ in
\* the prefix byte alone
OnePoolChangeEach(updates) ==
    IF Len(RefPoolChanges) # Len(updates) THEN FALSE
    ELSE /\ \A i \in DOMAIN updates :
                WithinCeiling(updates[i].value.key)
                => RefPoolChanges[i].pool_id
                     = <<"R", "E", "F", "-">> \o Dec(PoolIdOfKey(updates[i].value.key))
         /\ \A i, j \in DOMAIN updates :
                ( /\ Tail(updates[i].value.key) = Tail(updates[j].value.key)
                  /\ updates[i].value.value = updates[j].value.value
                  /\ updates[i].cause = updates[j].cause )
                => RefPoolChanges[i] = RefPoolChanges[j]

\* C23 as stated: every receipt-caused data update of the Ref contract whose value
\* decodes as a pool and whose key is one prefix byte, 0x00 or b"p", followed by
\* exactly 8 bytes gives exactly one PoolChangeEvent with the pool id
\* REF-<little-endian u64 of the 8 bytes>, the same for both prefixes; no other
\* key gives an event.
C23_EveryRefPoolKeyEmitted ==
    last.call = "process_block"
    => OnePoolChangeEach(SelectSeq(last.changes, DecodedRefPoolUpdate))

\* C23, amended: the same for the keys whose little-endian u64 is at most 420000;
\* a key above that ceiling gives no event.
C23_RefPoolKeysUpToCeilingEmitted ==
    last.call = "process_block"
    => OnePoolChangeEach(SelectSeq(last.changes,
                                   LAMBDA c : DecodedRefPoolUpdate(c) /\ WithinCeiling(c.value.key)))

\* pool 5 changed under the prefix 0x00 and under the prefix b"p" in one block: two
\* equal events for REF-5
C23_Pool5UnderBothPrefixes ==
    /\ last.call = "process_block"
    /\ Len(last.changes) = 2
    /\ DecodedRefPoolUpdate(last.changes[1]) /\ DecodedRefPoolUpdate(last.changes[2])
    /\ last.changes[1].value.key = RefKey(0, 5)
    /\ last.changes[2].value.key = RefKey(112, 5)
    /\ Len(RefPoolChanges) = 2
    /\ RefPoolChanges[1] = RefPoolChanges[2]
    /\ RefPoolChanges[1].pool_id = <<"R", "E", "F", "-", "5">>

(***************************************************************************)
(* C24.  The cause of a state mutation and the receipt id, height and      *)
(* timestamp of its PoolChangeEvent.                                       *)
(***************************************************************************)
\* the state change was caused by the processing of a receipt
ReceiptCaused(change) == change.cause.type = "ReceiptProcessing"

\* the contract whose state a PoolChangeEvent reports
ContractOfPoolChange(e) ==
    CASE e.pool.type = "Ref" -> (IF is_testnet THEN TESTNET_REF_CONTRACT_ID ELSE REF_CONTRACT_ID)
      [] e.pool.type = "Aidols" -> AIDOLS_CONTRACT_ID
      [] e.pool.type = "GraFun" -> GRAFUN_CONTRACT_ID
      [] OTHER -> "none"

\* C24: in the Ref, Aidols and GraFun branches of process_block a state mutation
\* whose cause is not receipt processing gives no PoolChangeEvent (the events of
\* the block are those of the block without such mutations); every PoolChangeEvent
\* carries the height and the timestamp of the block being processed and, as
\* receipt_id, the receipt hash of the cause of a data update of its contract, the
\* i-th event that of the i-th mutation when every mutation of the block is emitted.
C24_PoolChangeCarriesCauseAndBlock ==
    last.call = "process_block"
    => /\ last.events = process_block(SelectSeq(last.changes, ReceiptCaused), last.block, is_testnet)
       /\ \A i \in DOMAIN last.events :
              /\ last.events[i].op = "on_pool_change"
              /\ last.events[i].block_height = height
              /\ last.events[i].block_height = last.block.height
              /\ last.events[i].block_timestamp_nanosec = last.block.timestamp_nanosec
              /\ \E j \in DOMAIN last.changes :
                     /\ ReceiptCaused(last.changes[j])
                     /\ last.changes[j].value.type = "DataUpdate"
                     /\ last.changes[j].value.account_id = ContractOfPoolChange(last.events[i])
                     /\ last.changes[j].cause.receipt_hash = last.events[i].receipt_id
       /\ Len(last.events) = Len(last.changes)
          => \A i \in DOMAIN last.events :
                 last.events[i].receipt_id = last.changes[i].cause.receipt_hash

\* an Aidols pool written while a transaction was processed, then a GraFun pool
\* written by receipt 5: the one event is the GraFun pool's, with receipt id 5
C24_OnlyTheReceiptCausedOfTwo ==
    /\ last.call = "process_block"
    /\ Len(last.changes) = 2
    /\ last.changes[1].cause.type = "TransactionProcessing"
    /\ last.changes[1].value.account_id = AIDOLS_CONTRACT_ID
    /\ IsSome(DeserializeAidolsPool(last.changes[1].value.value))
    /\ last.changes[2].cause = ReceiptProcessing(5)
    /\ Len(last.events) = 1
    /\ last.events[1].pool.type = "GraFun"
    /\ last.events[1].receipt_id = 5
    /\ last.events[1].block_height = 1

(***************************************************************************)
(* C25.  State mutations whose value is no pool.                           *)
(***************************************************************************)
\* a data update of a recognized contract whose value bytes do not decode as a
\* pool of that contract: an unknown variant tag, a truncated layout, the layout
\* of another contract
UndecodablePoolUpdate(change) ==
    /\ change.value.type = "DataUpdate"
    /\ \/ IsRefUpdate(change) /\ ~IsSome(DeserializeRefPool(change.value.value))
       \/ /\ change.value.account_id = AIDOLS_CONTRACT_ID
          /\ ~IsSome(DeserializeAidolsPool(change.value.value))
       \/ /\ change.value.account_id = GRAFUN_CONTRACT_ID
          /\ ~IsSome(DeserializeGraFunPool(change.value.value))

\* C25: in process_block a state mutation whose value bytes do not decode as one
\* of the known pool variants gives no event, process_block returns Ok, and the
\* state mutations after it, of its shard and of the later shards, are decoded and
\* emitted: the events of the block are those of the block without such mutations.
C25_UndecodableValueSkipped ==
    last.call = "process_block"
    => /\ last.result = "Ok"
       /\ last.events
            = process_block(SelectSeq(last.changes, LAMBDA c : ~UndecodablePoolUpdate(c)),
                            last.block, is_testnet)
       /\ (\A i \in DOMAIN last.changes : UndecodablePoolUpdate(last.changes[i]))
          => last.events = << >>

\* a Ref pool with the unknown variant tag 4, then the degen pool 5: the block
\* gives the one event of REF-5 and process_block returns Ok
C25_DegenPoolAfterUnknownTag ==
    /\ last.call = "process_block"
    /\ Len(last.changes) = 2
    /\ IsRefUpdate(last.changes[1]) /\ IsRefPoolKey(last.changes[1].value.key)
    /\ last.changes[1].value.value = RefPoolValue(4, TRUE)
    /\ IsRefUpdate(last.changes[2])
    /\ last.changes[2].value.key = RefKey(0, 5)
    /\ Len(last.events) = 1
    /\ last.events[1].pool_id = <<"R", "E", "F", "-", "5">>
    /\ last.events[1].pool.type = "Ref"
    /\ last.events[1].pool.pool.kind = "DegenSwapPool"
    /\ last.result = "Ok"

(***************************************************************************)
(* C26.  The BalanceChangeSwap of a Ref receipt and its RawPoolSwap events.*)
(***************************************************************************)
\* the signed 128-bit sums of the hops never leave their range: every amount fits,
\* and so does the delta of every token after every leg
DeltasFit(swaps) ==
    /\ FittingHops(swaps) = swaps
    /\ \A k \in DOMAIN swaps :
           /\ NetDelta(SubSeq(swaps, 1, k - 1), swaps[k].token_in) - swaps[k].amount_in >= I128_MIN
           /\ \A t \in SwapTokens(swaps) : NetDelta(SubSeq(swaps, 1, k), t) \in I128_MIN..I128_MAX

\* C26: a Ref receipt gives at most one BalanceChangeSwap.  When detect has handed
\* over the RawPoolSwap events of the receipt and some token has a net delta other
\* than zero, it is handed over exactly once; it comes after the last RawPoolSwap
\* (it is the last handler call of the receipt), carries their TradeContext, and
\* its pool_swaps are the hops of the RawPoolSwap events in their order.  Without
\* RawPoolSwap events there is none.
C26_OneBalanceChangeAfterItsHops ==
    RefReceiptOffered
    => LET raw == LastOf("on_raw_pool_swap")
           balance == LastOf("on_balance_change_swap")
       IN  /\ Len(balance) <= 1
           /\ raw = << >> => balance = << >>
           /\ ( /\ raw # << >>
                /\ last.result = "Ok"
                /\ DeltasFit(ObservedHops(last.receipt.logs))
                /\ \E t \in SwapTokens(ObservedHops(last.receipt.logs)) :
                       NetDelta(ObservedHops(last.receipt.logs), t) # 0 )
              => Len(balance) = 1
           /\ Len(balance) = 1
              => /\ LastEvents[Len(LastEvents)] = balance[1]
                 /\ \A i \in DOMAIN raw : raw[i].context = balance[1].context
                 /\ balance[1].pool_swaps = [ i \in DOMAIN raw |-> raw[i].swap ]
                 /\ balance[1].balance_changes # EmptyMap

\* the chain aa -> bb -> cc through the pools 1 and 2: two RawPoolSwap, then the
\* BalanceChangeSwap of both
C26_TwoHopsThenTheirBalanceChange ==
    /\ RefReceiptOffered
    /\ IntendedHops(last.receipt) = << 1, 2 >>
    /\ Len(LastEvents) = 3
    /\ LastEvents[1].op = "on_raw_pool_swap" /\ LastEvents[1].swap.token_in = TokenA
    /\ LastEvents[2].op = "on_raw_pool_swap" /\ LastEvents[2].swap.token_out = TokenC
    /\ LastEvents[3].op = "on_balance_change_swap"
    /\ LastEvents[3].pool_swaps = << LastEvents[1].swap, LastEvents[2].swap >>
    /\ LastEvents[3].context = LastEvents[1].context
    /\ DOMAIN LastEvents[3].balance_changes = { TokenA, TokenC }

(***************************************************************************)
(* C27.  The run at the grain of the adapters: on_receipt awaits its       *)
(* adapters one after the other, and holds the indexer (&mut self) until   *)
(* the last has returned.  pc is "adapters" while on_receipt is running;   *)
(* every handler call is recorded with the number of the receipt, in the   *)
(* order of the on_receipt calls of its block, and with the adapter its    *)
(* content shows.                                                          *)
(***************************************************************************)
\* the adapter an event comes from, told from the event: the protocol of its pool
\* id and, for Veax, whether it is a swap event or a pool state
AdapterOf(e) ==
    LET protocol == ProtocolOf(CHOOSE x \in PoolIdsOf(e) : TRUE)
    IN  CASE protocol = <<"R", "E", "F">> -> 1
          [] protocol = <<"A", "I", "D", "O", "L", "S">> -> 2
          [] protocol = <<"G", "R", "A", "F", "U", "N">> -> 3
          [] protocol = <<"R", "E", "F", "D", "C", "L">> -> 4
          [] protocol = <<"V", "E", "A", "X">> -> (IF e.op = "on_pool_change" THEN 6 ELSE 5)
          [] OTHER -> 7

\* the handler calls of a receipt as the run records them
CallsOfReceipt(events, number) ==
    [ i \in 1..Len(events) |->
        [op |-> events[i].op, block_height |-> events[i].block_height,
         receipt |-> number, adapter |-> AdapterOf(events[i])] ]

\* receipts of several protocols; the Veax receipt logs its pool state before its swap
OrderInputs ==
    { << Receipt(REF_CONTRACT_ID, "alice.near", "SuccessValue",
                 << FunctionCall("swap", ActionsArgs(<< 1, 2 >>)) >>,
                 << SwapLine(SWAPPED, 1, TokenA, 2, TokenB), SwapLine(SWAPPED, 2, TokenB, 3, TokenC) >>),
         Transaction(<< >>) >>,
      << Receipt(REF_CONTRACT_ID, "alice.near", "SuccessValue",
                 << FunctionCall("swap", ActionsArgs(<< 1 >>)) >>,
                 << PlainLog(SWAPPED \o <<"x">> \o FOR \o <<"y">>) >>), Transaction(<< >>) >>,
      << Receipt(VEAX_CONTRACT_ID, "alice.near", "SuccessValue", << >>,
                 << EventLog("veax", "update_pool_state",
                             [shape |-> "veax_pool", pool |-> << TokenA, TokenB >>]),
                    EventLog("veax", "swap", [shape |-> "veax_swap", user |-> "alice.near",
                                              tokens |-> << TokenA, TokenB >>, amounts |-> << 1, 2 >>]) >>),
         Transaction(<< >>) >>,
      << Receipt(AIDOLS_CONTRACT_ID, "alice.near", "SuccessValue", << >>,
                 << EventLog("aidols", "token_swap",
                             [shape |-> "aidols_swaps",
                              swaps |-> << TokenSwapEvent(<< WRAP_NEAR, TokenA >>, << 1, 2 >>, None) >>]) >>),
         Transaction(<< >>) >>,
      << Receipt(REFDCL_CONTRACT_ID, "alice.near", "SuccessValue", << >>,
                 << EventLog("dcl.ref", "swap",
                             [shape |-> "refdcl_swaps",
                              swaps |-> << RefDclSwapEvent(<< TokenA, TokenB >>, << 1, 2 >>),
                                           RefDclSwapEvent(<< TokenB, TokenC >>, << 2, 3 >>) >>]) >>),
         Transaction(<< >>) >>,
      << Receipt("other.near", "alice.near", "SuccessValue",
                 << FunctionCall("swap", ActionsArgs(<< 1 >>)) >>,
                 << SwapLine(SWAPPED, 1, TokenA, 2, TokenB) >>), Transaction(<< >>) >> }

\* on_receipt is called: the adapters have yet to run
OnReceiptBegins(inputs, receipts) ==
    /\ DriverMayOfferReceipt(receipts)
    /\ \E input \in inputs :
         last' = [call |-> "on_receipt", receipt |-> input[1], transaction |-> input[2],
                  block |-> Block(height),
                  adapters |-> AdapterResults(input[1], input[2], Block(height), is_testnet,
                                              overflow_checks),
                  returned |-> 0, events |-> << >>, published |-> << >>, failed |-> 0,
                  result |-> "running"]
    /\ pc' = "adapters"
    /\ offered' = offered + 1
    /\ UNCHANGED << is_testnet, overflow_checks, height, calls, sink, remembered >>

\* the next adapter of the running on_receipt hands over its events and returns, or
\* panics; after the last one on_receipt returns Ok
AdapterRuns ==
    /\ pc = "adapters"
    /\ LET adapter == last.adapters[last.returned + 1]
       IN  /\ calls' = calls \o CallsOfReceipt(adapter.events, offered)
           /\ sink' = sink \o CallsOfReceipt(adapter.events, offered)
           /\ last' = [last EXCEPT
                         !.events = @ \o adapter.events,
                         !.published = @ \o adapter.events,
                         !.returned = IF adapter.exit = "panic" THEN @ ELSE @ + 1,
                         !.result = IF adapter.exit = "panic" THEN "panic"
                                    ELSE IF last.returned + 1 = Len(last.adapters) THEN "Ok"
                                    ELSE "running"]
           /\ pc' = IF adapter.exit = "panic" THEN "stopped"
                    ELSE IF last.returned + 1 = Len(last.adapters) THEN "receipts"
                    ELSE "adapters"
    /\ UNCHANGED << is_testnet, overflow_checks, height, offered, remembered >>

\* one block whose receipts go through their adapters one at a time
NextAdapters ==
    \/ ProcessBlock(1, { << >> }, { 0 })
    \/ OnReceiptBegins(OrderInputs, MaxReplays)
    \/ AdapterRuns
    \/ ProcessBlockEnd

SpecAdapters == Init /\ [][NextAdapters]_vars

LastTraders == { LastEvents[i].context.trader : i \in DOMAIN LastEvents }

\* C29: no event handed over by the Ref adapter for a receipt, swap or liquidity,
\* names the relayer ref.hot.tg as its trader, and all events of one receipt name
\* the same trader.
C29_RefEventsNameOneResolvedTrader ==
    RefReceiptOffered
    => /\ HOT_RELAYER \notin LastTraders
       /\ Cardinality(LastTraders) <= 1

\* add_liquidity called by ref.hot.tg on behalf of bob.near (parent and grandparent
\* receipts are in the transaction): the liquidity event names ref.hot.tg
C29_LiquidityEventNamesRelayer ==
    /\ RefReceiptOffered
    /\ last.receipt.predecessor_id = HOT_RELAYER
    /\ GrandparentCallers(last.transaction, last.receipt.receipt_id) = { "bob.near" }
    /\ Len(last.receipt.actions) = 1
    /\ HasCall(last.receipt, "add_liquidity")
    /\ Len(LastEvents) = 1
    /\ LastEvents[1].op = "on_liquidity_pool"
    /\ LastEvents[1].context.trader = HOT_RELAYER

(***************************************************************************)
(* C30.  One pool id per pool, for swaps and pool states alike.            *)
(***************************************************************************)
\* the handler calls of the last receipt that name a Veax pool, each with the two
\* tokens of its pool and the pool id it carries
VeaxPoolsNamed ==
    { [tokens |-> { LastEvents[i].swap.token_in, LastEvents[i].swap.token_out },
       pool_id |-> LastEvents[i].swap.pool] :
        i \in { j \in DOMAIN LastEvents : LastEvents[j].op = "on_raw_pool_swap" } }
    \cup { [tokens |-> { LastEvents[i].pool.pool.pool[1], LastEvents[i].pool.pool.pool[2] },
            pool_id |-> LastEvents[i].pool_id] :
             i \in { j \in DOMAIN LastEvents :
                       /\ LastEvents[j].op = "on_pool_change"
                       /\ LastEvents[j].pool.type = "Veax" } }

\* the pool id process_block gives the pool of `token` of a launchpad contract:
\* the id of the event of a decodable update under the key of that token
StateKeyPoolId(contract, token) ==
    StateChange(DataUpdate(ReceiptProcessing(0), contract,
                           TokenKey(IF contract = AIDOLS_CONTRACT_ID THEN 0 ELSE 115, token),
                           [layout |-> IF contract = AIDOLS_CONTRACT_ID
                                       THEN "aidols_pool" ELSE "grafun_pool",
                            complete |-> TRUE, fields |-> "fields"]),
                Block(0), FALSE)[1].pool_id

\* the swaps of the last receipt that have exactly one wrap.near leg
OneLegWrapSwaps ==
    { LastEvents[i].swap :
        i \in { j \in DOMAIN LastEvents :
                  /\ LastEvents[j].op = "on_raw_pool_swap"
                  /\ (LastEvents[j].swap.token_in = WRAP_NEAR)
                       # (LastEvents[j].swap.token_out = WRAP_NEAR) } }

NonWrapLeg(swap) == IF swap.token_in = WRAP_NEAR THEN swap.token_out ELSE swap.token_in

\* the swap of an Aidols or GraFun receipt carries the pool id of the state key of
\* its non-wrap.near leg
LaunchpadSwapNamesStatePool ==
    ReceiptOffered /\ last.receipt.receiver_id \in { AIDOLS_CONTRACT_ID, GRAFUN_CONTRACT_ID }
    => \A s \in OneLegWrapSwaps : s.pool = StateKeyPoolId(last.receipt.receiver_id, NonWrapLeg(s))

\* C30: the pool id of a swap through a pool is the pool id of the pool-state event
\* of that pool whatever the direction of the swap: the Veax calls of a receipt
\* that name the same two tokens carry the same pool id, and an Aidols or GraFun
\* swap carries the id built from the token account of the state key.
C30_SwapAndPoolStateShareOnePoolId ==
    /\ ReceiptOffered /\ last.receipt.receiver_id = VEAX_CONTRACT_ID
       => \A x \in VeaxPoolsNamed : \A y \in VeaxPoolsNamed :
            x.tokens = y.tokens => x.pool_id = y.pool_id
    /\ LaunchpadSwapNamesStatePool

\* a Veax receipt logs the state of the pool (aa, bb) and a swap of bb for aa: the
\* pool state is named VEAX-aa-bb, the swap VEAX-bb-aa
C30_VeaxSwapAgainstPoolOrder ==
    /\ ReceiptOffered /\ last.receipt.receiver_id = VEAX_CONTRACT_ID
    /\ [tokens |-> { TokenA, TokenB }, pool_id |-> create_veax_pool_id(<< TokenA, TokenB >>)]
         \in VeaxPoolsNamed
    /\ [tokens |-> { TokenA, TokenB }, pool_id |-> create_veax_pool_id(<< TokenB, TokenA >>)]
         \in VeaxPoolsNamed
    /\ \E i \in DOMAIN LastEvents :
         /\ LastEvents[i].op = "on_pool_change"
         /\ LastEvents[i].pool_id = create_veax_pool_id(<< TokenA, TokenB >>)
    /\ \E i \in DOMAIN LastEvents :
         /\ LastEvents[i].op = "on_raw_pool_swap"
         /\ LastEvents[i].swap.token_in = TokenB
         /\ LastEvents[i].swap.pool = create_veax_pool_id(<< TokenB, TokenA >>)

====
